---- MODULE Spec2Model ----
(***************************************************************************)
(* A model of the OneDrive backend of restic                               *)
(* (internal/backend/onedrive/onedrive.go): the semaphore-gated public     *)
(* operations, the once-per-path folder creation, the upload-session       *)
(* protocol, Load's reader-close hook, open/Create and List.               *)
(*                                                                         *)
(* A path is the sequence of its "/"-separated segments (what              *)
(* strings.Split(path, "/") returns); "" is an empty segment.  An error    *)
(* value is an integer: 0 is nil, a value in 100..599 is an httpError      *)
(* with that status code, a negative value is an error that is not an      *)
(* httpError.                                                              *)
(***************************************************************************)
EXTENDS Integers, Sequences, FiniteSets, TLC

\* ------------------------------------------------------------------ bounds
\* goroutines calling the backend concurrently
NumProcs == 2
\* the largest cfg.Connections a backend instance of the model is opened with
Connections == 2
\* the longest upload takes MaxFragments full fragments and one byte
MaxFragments == 3
\* children the remote returns in one page of a listing
PageSize == 1
\* the longest target list handed to NewArchiveTree
MaxTargets == 3
\* the chunks of the largest file the archiver reads
MaxChunks == 2
\* the pack records of the largest index document
MaxPacks == 3
\* the characters after the scheme in the strings given to ParseConfig
MaxTail == 3
\* the longest path pathNames is called with, in characters
MaxPath == 4
\* the largest value given to --read-data-subset
MaxBuckets == 4
\* the largest first byte of a pack ID
MaxFirstByte == 2

\* --------------------------------------------------------------- constants
uploadFragmentSize == 327680 * 30
StatusOK == 200
StatusCreated == 201
StatusAccepted == 202
StatusNoContent == 204
StatusPartialContent == 206
StatusNotFound == 404
StatusPreconditionFailed == 412
StatusRangeNotSatisfiable == 416
StatusInternalServerError == 500

\* error values that are not httpErrors
ErrNil == 0
ErrTransport == 0 - 1
ErrUnknownSize == 0 - 2
ErrInvalid == 0 - 3
ErrConfigExists == 0 - 4

Procs == 1..NumProcs

\* ------------------------------------------------------------------ layout
ConfigFile == "config"
DataFile == "data"
SnapshotFile == "snapshots"
Prefix == <<"repo">>
ConfigH == [Type |-> ConfigFile, Name |-> "config"]
DataA == [Type |-> DataFile, Name |-> "aa1"]
DataA2 == [Type |-> DataFile, Name |-> "aa2"]
DataB == [Type |-> DataFile, Name |-> "bb1"]
SnapS == [Type |-> SnapshotFile, Name |-> "s1"]
Handles == {ConfigH, DataA, DataA2, DataB, SnapS}

\* first byte of the ID in hex: the shard subdirectory of a data file
Shard(name) == IF name \in {"aa1", "aa2"} THEN "aa" ELSE "bb"

\* Basedir(t): the directory of a type, and whether it has shard subdirectories
BasedirName(t) == Prefix \o <<t>>

hasSubdirs(t) == t = DataFile

Dirname(f) ==
    IF f.Type = ConfigFile THEN Prefix
    ELSE IF hasSubdirs(f.Type) THEN BasedirName(f.Type) \o <<Shard(f.Name)>>
    ELSE BasedirName(f.Type)

Filename(f) ==
    IF f.Type = ConfigFile THEN Prefix \o <<"config">>
    ELSE Dirname(f) \o <<f.Name>>

\* ----------------------------------------------------------------- helpers
isHTTPSuccess(statusCode) == statusCode >= 200 /\ statusCode <= 299

\* an isNotExist that knows no status
isNotExistNever(err) == FALSE

isNotExist(err) == err = StatusNotFound

\* the error a response with this status becomes (transport errors pass)
newHTTPError(statusCode) == statusCode

pathNames(path) ==
    LET segments == SelectSeq(path, LAMBDA s : s # "")
    IN  [i \in 1..Len(segments) |-> SubSeq(segments, 1, i)]

\* every folder path createFolders can be asked for
AllDirs == UNION {{pathNames(Dirname(f))[i] : i \in 1..Len(pathNames(Dirname(f)))} : f \in Handles}

FilePaths == {Filename(f) : f \in Handles}

\* sizes of the readers handed to Save
SaveSizes == {1, 2}

NoHandle == [Type |-> "", Name |-> ""]
NoFile == 0 - 1

VARIABLES
    sem,        \* tokens taken from be.sem
    holds,      \* caller -> tokens it has taken and not released
    folders,    \* be.folders: path -> state of its sync.Once
    creates,    \* folder path -> number of create requests sent for it
    srvFolders, \* remote: the folders that exist
    srvFiles,   \* remote: path -> size of the item, NoFile when absent
    srvRecv,    \* remote: caller -> bytes received in its upload session, -1 when none
    faulty,     \* remote: whether it may answer 5xx or not at all
    opened,     \* whether the caller has a backend instance (open returned one)
    connections, \* be.connections: cfg.Connections, the size of be.sem
    g,          \* caller -> its frame: where it is and its locals
    lst,        \* the List call in progress: its type, ctx, ch, subdirs and subch
    l,          \* List's goroutines (0: the one List starts, others: its workers) -> frame
    cons,       \* the goroutine receiving from the channel List returned
    at,         \* NewArchiveTree: its targets, position, seen set, tree and error
    sn,         \* NewArchiver.Snapshot: where it is, what it saved, what it returns
    ix,         \* indexJsonStreamer.LoadIndex: the token stream, its position, the index
    cf,         \* ParseConfig: the string it was called with and what it returned
    pn,         \* pathNames: the path it was called with and the names it returned
    ck          \* check: the --read-data-subset flag, what checkFlags said, the packs read

vars == <<sem, holds, folders, creates, srvFolders, srvFiles, srvRecv, faulty, opened,
          connections, g,
          lst, l, cons, at, sn, ix, cf, pn, ck>>

\* what List leaves alone, the semaphore apart
beVars == <<holds, folders, creates, srvFolders, srvFiles, srvRecv, faulty, opened,
            connections, g>>

\* what the other methods leave alone
lvars == <<lst, l, cons>>

\* the archiver and the index loader, which no backend method touches
avars == <<at, sn, ix, cf, pn, ck>>

\* A frame: pc (where the caller is), op (the public method), h (its handle),
\* idx (createFolders: index into pathNames), length and pos (onedriveItemUpload),
\* Load's length and offset are in length and pos;
\* err and val (what the method returns; val is Test's bool as 1/0 and Stat's
\* size), log (the requests the method has sent, with their answers, in order),
\* sess (the state of Save's upload session).
Idle == [pc |-> "idle", op |-> "", h |-> NoHandle, idx |-> 0, length |-> 0,
         pos |-> 0, err |-> ErrNil, val |-> 0, log |-> <<>>, sess |-> "Init"]

\* the two http.Clients of the backend: be.client, whose oauth2 transport
\* puts the Authorization header on what it sends, and be.nakedClient
Client == "client"
NakedClient == "nakedClient"

\* a request and the remote's answer to it, as logged
Req(c, m, path, range, st) ==
    [c |-> c, m |-> m, path |-> path, range |-> range, st |-> st]

NoRange == [first |-> 0, last |-> 0, total |-> 0]

\* "Range: bytes=first-last", and "Range: bytes=first-" with last = ToEnd
ToEnd == 0 - 1
ByteRange(first, last) == [first |-> first, last |-> last, total |-> ToEnd]

\* "Content-Range: bytes first-last/total"
ContentRange(p0, n, len) == [first |-> p0, last |-> p0 + n - 1, total |-> len]

\* ------------------------------------------------------------ the remote
\* What the remote answers besides the answer the protocol gives: a 5xx
\* status, or no answer at all (client.Do returns an error).
Faults == IF faulty THEN {StatusInternalServerError, ErrTransport} ELSE {}

ConfigPath == Filename(ConfigH)

Exists(path) == path \in srvFolders \/ (path \in FilePaths /\ srvFiles[path] # NoFile)

Parent(path) == SubSeq(path, 1, Len(path) - 1)

IsUnder(path, root) == Len(path) >= Len(root) /\ SubSeq(path, 1, Len(root)) = root

\* GET item: 200 with the item, 404 without
ServerItemInfo(path) == IF Exists(path) THEN StatusOK ELSE StatusNotFound

\* POST children, If-None-Match: * : 412 for an existing folder, 201 for a
\* new one under an existing parent (or the drive root), 404 otherwise
ServerCreateFolder(path) ==
    IF path \in srvFolders THEN StatusPreconditionFailed
    ELSE IF Len(path) = 1 \/ Parent(path) \in srvFolders THEN StatusCreated
    ELSE StatusNotFound

\* DELETE item: 204 when it was there, 404 when not
ServerDelete(path) == IF Exists(path) THEN StatusNoContent ELSE StatusNotFound

\* POST createUploadSession: 412 under If-None-Match: * for an existing item;
\* with the parent folder missing the remote answers 412 now and then
ServerCreateUploadSession(path, ifNoneMatch) ==
    IF ifNoneMatch /\ Exists(path) THEN {StatusPreconditionFailed}
    ELSE IF Parent(path) \notin srvFolders THEN {StatusOK, StatusPreconditionFailed}
    ELSE {StatusOK}

\* PUT of a fragment to an uploadUrl: the session takes the bytes that
\* continue what it has (202); the fragment that reaches the total completes
\* the item (201), which may be refused (412) when the parent folder is gone
\* or, for a session opened under If-None-Match: *, when the item has
\* appeared in between
ServerPutFragment(recv, path, ifNoneMatch, range) ==
    IF recv < 0 THEN {StatusNotFound}
    ELSE IF range.first # recv \/ range.last < range.first \/ range.last >= range.total
         THEN {StatusRangeNotSatisfiable}
    ELSE IF range.last + 1 < range.total THEN {StatusAccepted}
    ELSE IF Parent(path) \notin srvFolders \/ (ifNoneMatch /\ Exists(path))
         THEN {StatusCreated, StatusPreconditionFailed}
    ELSE {StatusCreated}

\* GET content: 200 or 206 for an item, 404 without
ServerItemContent(path) ==
    IF Exists(path) THEN {StatusOK, StatusPartialContent} ELSE {StatusNotFound}

Ancestors(path) == {SubSeq(path, 1, i) : i \in 1..(Len(path) - 1)}

\* the state an upload session is in after the remote's answer to the POST
SessionAfterPost(status) == IF status = StatusOK THEN "SessionCreated" ELSE "Failed"

\* ... and after its answer to a fragment PUT
SessionAfterPut(status) ==
    IF status = StatusAccepted THEN "Fragment"
    ELSE IF status = StatusCreated THEN "Completed"
    ELSE "Failed"

\* ------------------------------------------------- low level OneDrive calls
\* Each takes the answer (a status, or ErrTransport) and gives the error the
\* Go function returns for it.
\* an item query that takes every answer of the remote for the item
onedriveItemInfoAnyStatus(status) ==
    IF status = ErrTransport THEN ErrTransport ELSE ErrNil

onedriveItemInfo(status) ==
    IF status = ErrTransport THEN ErrTransport
    ELSE IF ~isHTTPSuccess(status) THEN newHTTPError(status)
    ELSE ErrNil

onedriveItemDelete(status) ==
    IF status = ErrTransport THEN ErrTransport
    ELSE IF ~isHTTPSuccess(status) THEN newHTTPError(status)
    ELSE ErrNil

onedriveCreateFolderSwallow(status) == ErrNil

\* a folder create that takes 412 for an error like any other non-2xx answer
onedriveCreateFolderStrict(status) ==
    IF status = ErrTransport THEN ErrTransport
    ELSE IF ~isHTTPSuccess(status) THEN newHTTPError(status)
    ELSE ErrNil

onedriveCreateFolder(status) ==
    IF status = ErrTransport THEN ErrTransport
    ELSE IF ~isHTTPSuccess(status) /\ status # StatusPreconditionFailed
         THEN newHTTPError(status)
    ELSE ErrNil

onedriveItemContent(status) ==
    IF status = ErrTransport THEN ErrTransport
    ELSE IF ~isHTTPSuccess(status) THEN newHTTPError(status)
    ELSE ErrNil

\* onedriveItemUpload: the error of the createUploadSession POST
uploadSessionErr(status) ==
    IF status = ErrTransport THEN ErrTransport
    ELSE IF ~isHTTPSuccess(status) THEN newHTTPError(status)
    ELSE ErrNil

uploadFragmentErrSwallow(status) ==
    IF status = ErrTransport THEN ErrTransport ELSE ErrNil

\* onedriveItemUpload: the error of one fragment PUT
uploadFragmentErr(status) ==
    IF status = ErrTransport THEN ErrTransport
    ELSE IF ~isHTTPSuccess(status) THEN newHTTPError(status)
    ELSE ErrNil

\* a fragment PUT sent with the token
uploadFragmentClientAuth == Client

\* onedriveItemUpload: the client that sends the fragment PUTs
uploadFragmentClient == NakedClient

contentLengthNoClamp(len, p0) == uploadFragmentSize

\* onedriveItemUpload: the length of the fragment at pos
contentLength(len, p0) ==
    IF len - p0 > uploadFragmentSize THEN uploadFragmentSize ELSE len - p0

overwriteIfExistsAlways(f) == TRUE

\* Save: overwriteIfExists as passed to onedriveItemUpload
overwriteIfExists(f) == f.Type = ConfigFile

\* ---------------------------------------------------------------- semaphore
NewSemaphore == 0

GetToken(p) ==
    /\ opened
    /\ sem < connections
    /\ sem' = sem + 1
    /\ holds' = [holds EXCEPT ![p] = @ + 1]

ReleaseToken(p) ==
    /\ sem > 0
    /\ sem' = sem - 1
    /\ holds' = [holds EXCEPT ![p] = @ - 1]

\* --------------------------------------------------------- public methods
Sent(p, c, m, path, range, st) == Append(g[p].log, Req(c, m, path, range, st))

\* Test: timeoutContext, GetToken, and the item request goes out
Test(p, f) ==
    /\ g[p].pc = "idle"
    /\ GetToken(p)
    /\ g' = [g EXCEPT ![p] = [Idle EXCEPT !.pc = "info", !.op = "Test", !.h = f]]
    /\ UNCHANGED <<avars, lvars, connections, faulty, opened, folders, creates, srvFolders, srvFiles, srvRecv>>

\* Test: the answer of onedriveItemInfo
TestDone(p) ==
    /\ g[p].pc = "info" /\ g[p].op = "Test"
    /\ \E status \in {ServerItemInfo(Filename(g[p].h))} \cup Faults :
        LET e == onedriveItemInfo(status)
        IN  g' = [g EXCEPT ![p].pc = "ret",
                           ![p].err = IF e # ErrNil /\ isNotExist(e) THEN ErrNil ELSE e,
                           ![p].val = IF e = ErrNil THEN 1 ELSE 0,
                           ![p].log = Sent(p, Client, "GET", Filename(g[p].h), NoRange, status)]
    /\ UNCHANGED <<avars, lvars, connections, faulty, opened, sem, holds, folders, creates, srvFolders, srvFiles, srvRecv>>

\* a Stat that sends its request without a token
StatNoToken(p, f) ==
    /\ g[p].pc = "idle"
    /\ opened
    /\ g' = [g EXCEPT ![p] = [Idle EXCEPT !.pc = "info", !.op = "Stat", !.h = f]]
    /\ UNCHANGED <<avars, lvars, connections, faulty, opened, sem, holds, folders, creates, srvFolders, srvFiles, srvRecv>>

\* Stat: timeoutContext, GetToken, and the item request goes out
Stat(p, f) ==
    /\ g[p].pc = "idle"
    /\ GetToken(p)
    /\ g' = [g EXCEPT ![p] = [Idle EXCEPT !.pc = "info", !.op = "Stat", !.h = f]]
    /\ UNCHANGED <<avars, lvars, connections, faulty, opened, folders, creates, srvFolders, srvFiles, srvRecv>>

StatDone(p) ==
    /\ g[p].pc = "info" /\ g[p].op = "Stat"
    /\ \E status \in {ServerItemInfo(Filename(g[p].h))} \cup Faults :
        LET e == onedriveItemInfo(status)
        IN  g' = [g EXCEPT ![p].pc = "ret",
                           ![p].err = e,
                           ![p].val = IF e = ErrNil THEN srvFiles[Filename(g[p].h)] ELSE 0,
                           ![p].log = Sent(p, Client, "GET", Filename(g[p].h), NoRange, status)]
    /\ UNCHANGED <<avars, lvars, connections, faulty, opened, sem, holds, folders, creates, srvFolders, srvFiles, srvRecv>>

Remove(p, f) ==
    /\ g[p].pc = "idle"
    /\ GetToken(p)
    /\ g' = [g EXCEPT ![p] = [Idle EXCEPT !.pc = "delete", !.op = "Remove", !.h = f]]
    /\ UNCHANGED <<avars, lvars, connections, faulty, opened, folders, creates, srvFolders, srvFiles, srvRecv>>

RemoveDone(p) ==
    /\ g[p].pc = "delete" /\ g[p].op = "Remove"
    /\ LET path == Filename(g[p].h)
       IN  \E status \in {ServerDelete(path)} \cup Faults :
            /\ srvFiles' = IF status = StatusNoContent
                           THEN [srvFiles EXCEPT ![path] = NoFile] ELSE srvFiles
            /\ g' = [g EXCEPT ![p].pc = "ret",
                              ![p].err = onedriveItemDelete(status),
                              ![p].log = Sent(p, Client, "DELETE", path, NoRange, status)]
    /\ UNCHANGED <<avars, lvars, connections, faulty, opened, sem, holds, folders, creates, srvFolders, srvRecv>>

Delete(p) ==
    /\ g[p].pc = "idle"
    /\ GetToken(p)
    /\ g' = [g EXCEPT ![p] = [Idle EXCEPT !.pc = "delete", !.op = "Delete"]]
    /\ UNCHANGED <<avars, lvars, connections, faulty, opened, folders, creates, srvFolders, srvFiles, srvRecv>>

\* Delete: the whole tree under be.basedir goes with the root
DeleteDone(p) ==
    /\ g[p].pc = "delete" /\ g[p].op = "Delete"
    /\ \E status \in {ServerDelete(Prefix)} \cup Faults :
        LET e == onedriveItemDelete(status)
        IN  /\ srvFolders' = IF status = StatusNoContent
                             THEN {d \in srvFolders : ~IsUnder(d, Prefix)} ELSE srvFolders
            /\ srvFiles' = IF status = StatusNoContent
                           THEN [fp \in FilePaths |->
                                   IF IsUnder(fp, Prefix) THEN NoFile ELSE srvFiles[fp]]
                           ELSE srvFiles
            /\ g' = [g EXCEPT ![p].pc = "ret",
                              ![p].err = IF e # ErrNil /\ ~isNotExist(e) THEN e ELSE ErrNil,
                              ![p].log = Sent(p, Client, "DELETE", Prefix, NoRange, status)]
    /\ UNCHANGED <<avars, lvars, connections, faulty, opened, sem, holds, folders, creates, srvRecv>>

\* the return of a method that released its token by defer
Return(p) ==
    /\ g[p].pc = "ret" /\ g[p].op \notin {"Load", "Open", "Create", "CreateFolder"}
    /\ ReleaseToken(p)
    /\ g' = [g EXCEPT ![p] = Idle]
    /\ srvRecv' = [srvRecv EXCEPT ![p] = 0 - 1]
    /\ UNCHANGED <<avars, lvars, connections, faulty, opened, folders, creates, srvFolders, srvFiles>>

\* ------------------------------------------------------------------- Save
\* Save: timeoutContext, GetToken; createFolders(be.Dirname(f)) is next.
\* len is what readerSize gives for rd: its size, or -1 for a reader that is
\* neither a file nor has Len().
Save(p, f, len) ==
    /\ g[p].pc = "idle"
    /\ GetToken(p)
    /\ g' = [g EXCEPT ![p] = [Idle EXCEPT !.pc = "folders", !.op = "Save", !.h = f,
                                          !.idx = 1, !.length = len]]
    /\ UNCHANGED <<avars, lvars, connections, faulty, opened, folders, creates, srvFolders, srvFiles, srvRecv>>

\* the folderPath createFolders was called with: be.Dirname(f) by Save,
\* cfg.Prefix by open
folderPath(p) == IF g[p].op = "Create" THEN Prefix ELSE Dirname(g[p].h)

\* an upload that does not look at what readerSize gave
NextFolderAnySize(p) ==
    IF g[p].idx < Len(pathNames(folderPath(p)))
    THEN [g[p] EXCEPT !.idx = @ + 1, !.pc = "folders"]
    ELSE IF g[p].op = "Create"
    THEN [g[p] EXCEPT !.pc = "ret"]
    ELSE [g[p] EXCEPT !.pc = "post"]

\* createFolders' loop moves on from the folder at idx; after the last one
\* createFolders returns nil and Save calls onedriveItemUpload, which returns
\* at once for a reader of unknown size and sends the session POST otherwise
NextFolder(p) ==
    IF g[p].idx < Len(pathNames(folderPath(p)))
    THEN [g[p] EXCEPT !.idx = @ + 1, !.pc = "folders"]
    ELSE IF g[p].op = "Create"
    THEN [g[p] EXCEPT !.pc = "ret"]
    ELSE IF g[p].length < 0
    THEN [g[p] EXCEPT !.pc = "ret", !.err = ErrUnknownSize]
    ELSE [g[p] EXCEPT !.pc = "post"]

\* ifCreateFolder on a path whose Once is done: Do returns without calling
ifCreateFolderKnown(p) ==
    /\ g[p].pc = "folders"
    /\ folders[pathNames(folderPath(p))[g[p].idx]] = "done"
    /\ g' = [g EXCEPT ![p] = NextFolder(p)]
    /\ UNCHANGED <<avars, lvars, connections, faulty, opened, sem, holds, folders, creates, srvFolders, srvFiles, srvRecv>>

\* a folderOnce that does not serialise: every caller that finds the folder
\* not yet made sends its own request
ifCreateFolderRacy(p) ==
    /\ g[p].pc = "folders"
    /\ LET path == pathNames(IF g[p].op = "Create" THEN Prefix ELSE Dirname(g[p].h))[g[p].idx]
       IN  /\ folders[path] # "done"
           /\ folders' = [folders EXCEPT ![path] = "running"]
           /\ creates' = [creates EXCEPT ![path] = @ + 1]
    /\ g' = [g EXCEPT ![p].pc = "mkdir"]
    /\ UNCHANGED <<avars, lvars, connections, faulty, opened, sem, holds, srvFolders, srvFiles, srvRecv>>

\* ifCreateFolder on a path with a fresh Once: Do calls onedriveCreateFolder.
\* (On a path whose Once is running, Do blocks: no action is enabled.)
ifCreateFolder(p) ==
    /\ g[p].pc = "folders"
    /\ LET path == pathNames(folderPath(p))[g[p].idx]
       IN  /\ folders[path] = "none"
           /\ folders' = [folders EXCEPT ![path] = "running"]
           /\ creates' = [creates EXCEPT ![path] = @ + 1]
    /\ g' = [g EXCEPT ![p].pc = "mkdir"]
    /\ UNCHANGED <<avars, lvars, connections, faulty, opened, sem, holds, srvFolders, srvFiles, srvRecv>>

\* the answer to the folder create: the Once is done whatever it is
createFolderDone(p) ==
    /\ g[p].pc = "mkdir"
    /\ LET path == pathNames(folderPath(p))[g[p].idx]
       IN  \E status \in {ServerCreateFolder(path)} \cup Faults :
            LET e == onedriveCreateFolder(status)
                sent == Sent(p, Client, "MKDIR", path, NoRange, status)
            IN  /\ srvFolders' = IF status = StatusCreated
                                 THEN srvFolders \cup {path} ELSE srvFolders
                /\ folders' = [folders EXCEPT ![path] = "done"]
                /\ g' = [g EXCEPT ![p] =
                           IF e # ErrNil
                           THEN [g[p] EXCEPT !.pc = "ret", !.err = e, !.log = sent]
                           ELSE [NextFolder(p) EXCEPT !.log = sent]]
    /\ UNCHANGED <<avars, lvars, connections, faulty, opened, sem, holds, creates, srvFiles, srvRecv>>

\* The folders onedriveCreateFolder is called for when it is called by itself,
\* as TestCreateFolder does: a folder and its subfolders.
TestFolders == pathNames(Dirname(DataA))

\* onedriveCreateFolder(client, path) called without a backend instance: the
\* POST goes out
CreateFolder(p, k) ==
    /\ g[p].pc = "idle"
    /\ g' = [g EXCEPT ![p] = [Idle EXCEPT !.pc = "create", !.op = "CreateFolder",
                                          !.h = DataA, !.idx = k]]
    /\ UNCHANGED <<avars, lvars, connections, faulty, opened, sem, holds, folders, creates, srvFolders, srvFiles, srvRecv>>

\* ... and its answer: the error is returned to the caller
CreateFolderDone(p) ==
    /\ g[p].pc = "create"
    /\ LET path == TestFolders[g[p].idx]
       IN  \E status \in {ServerCreateFolder(path)} \cup Faults :
            /\ srvFolders' = IF status = StatusCreated
                             THEN srvFolders \cup {path} ELSE srvFolders
            /\ g' = [g EXCEPT ![p].pc = "ret",
                              ![p].err = onedriveCreateFolder(status),
                              ![p].log = Sent(p, Client, "MKDIR", path, NoRange, status)]
    /\ UNCHANGED <<avars, lvars, connections, faulty, opened, sem, holds, folders, creates, srvFiles, srvRecv>>

\* the caller has the result
CreateFolderReturn(p) ==
    /\ g[p].pc = "ret" /\ g[p].op = "CreateFolder"
    /\ g' = [g EXCEPT ![p] = Idle]
    /\ UNCHANGED <<avars, lvars, connections, faulty, opened, sem, holds, folders, creates, srvFolders, srvFiles, srvRecv>>

\* onedriveItemDelete(client, path) of the topmost test folder, as the
\* cleanup of TestCreateFolder does: the folder goes with all below it
CleanupFolders(p) ==
    /\ g[p].pc = "idle"
    /\ \E status \in {ServerDelete(TestFolders[1])} \cup Faults :
        /\ srvFolders' = IF status = StatusNoContent
                         THEN {d \in srvFolders : ~IsUnder(d, TestFolders[1])}
                         ELSE srvFolders
        /\ srvFiles' = IF status = StatusNoContent
                       THEN [fp \in FilePaths |->
                               IF IsUnder(fp, TestFolders[1]) THEN NoFile ELSE srvFiles[fp]]
                       ELSE srvFiles
    /\ UNCHANGED <<avars, lvars, connections, faulty, opened, sem, holds, folders, creates, srvRecv, g>>

\* onedriveItemUpload: the answer to the createUploadSession POST
uploadSession(p) ==
    /\ g[p].pc = "post"
    /\ LET path == Filename(g[p].h)
           inm == ~overwriteIfExists(g[p].h)
       IN  \E status \in ServerCreateUploadSession(path, inm) \cup Faults :
            LET e == uploadSessionErr(status)
                sent == Sent(p, Client, "POST", path, NoRange, status)
            IN  /\ srvRecv' = IF status = StatusOK
                              THEN [srvRecv EXCEPT ![p] = 0] ELSE srvRecv
                /\ g' = [g EXCEPT ![p] =
                           IF e # ErrNil
                           THEN [g[p] EXCEPT !.pc = "ret", !.err = e, !.log = sent,
                                             !.sess = SessionAfterPost(status)]
                           ELSE IF 0 < g[p].length
                           THEN [g[p] EXCEPT !.pc = "put", !.pos = 0, !.log = sent,
                                             !.sess = SessionAfterPost(status)]
                           ELSE [g[p] EXCEPT !.pc = "ret", !.log = sent,
                                             !.sess = SessionAfterPost(status)]]
    /\ UNCHANGED <<avars, lvars, connections, faulty, opened, sem, holds, folders, creates, srvFolders, srvFiles>>

\* onedriveItemUpload: the answer to the fragment PUT at pos
uploadFragment(p) ==
    /\ g[p].pc = "put"
    /\ LET path == Filename(g[p].h)
           inm == ~overwriteIfExists(g[p].h)
           range == ContentRange(g[p].pos, contentLength(g[p].length, g[p].pos),
                                 g[p].length)
       IN  \E status \in ServerPutFragment(srvRecv[p], path, inm, range) \cup Faults :
            LET e == uploadFragmentErr(status)
                sent == Sent(p, uploadFragmentClient, "PUT", path, range, status)
                next == g[p].pos + uploadFragmentSize
            IN  /\ srvRecv' = [srvRecv EXCEPT ![p] =
                                 IF status = StatusAccepted THEN range.last + 1
                                 ELSE IF status = StatusCreated THEN 0 - 1
                                 ELSE @]
                /\ srvFiles' = IF status = StatusCreated
                               THEN [srvFiles EXCEPT ![path] = range.last + 1]
                               ELSE srvFiles
                /\ srvFolders' = IF status = StatusCreated
                                 THEN srvFolders \cup Ancestors(path) ELSE srvFolders
                /\ g' = [g EXCEPT ![p] =
                           IF e # ErrNil
                           THEN [g[p] EXCEPT !.pc = "ret", !.err = e, !.log = sent,
                                             !.sess = SessionAfterPut(status)]
                           ELSE IF next < g[p].length
                           THEN [g[p] EXCEPT !.pos = next, !.log = sent,
                                             !.sess = SessionAfterPut(status)]
                           ELSE [g[p] EXCEPT !.pc = "ret", !.pos = next, !.log = sent,
                                             !.sess = SessionAfterPut(status)]]
    /\ UNCHANGED <<avars, lvars, connections, faulty, opened, sem, holds, folders, creates>>

\* ------------------------------------------------------------------- Load
\* a Range header that asks for length bytes whatever length is
byteRangeClosed(length, offset) ==
    IF length > 0 \/ offset > 0 THEN ByteRange(offset, offset + length - 1) ELSE NoRange

\* onedriveItemContent: the Range header of the request, NoRange for none
byteRange(length, offset) ==
    IF length > 0 \/ offset > 0
    THEN IF length > 0 THEN ByteRange(offset, offset + length - 1)
         ELSE ByteRange(offset, ToEnd)
    ELSE NoRange

\* Load with a negative offset or length: an error before any token
LoadInvalid(p, f, len, off) ==
    /\ g[p].pc = "idle"
    /\ off < 0 \/ len < 0
    /\ g' = [g EXCEPT ![p] = [Idle EXCEPT !.pc = "ret", !.op = "Load", !.h = f,
                                          !.length = len, !.pos = off,
                                          !.err = ErrInvalid]]
    /\ UNCHANGED <<avars, lvars, connections, faulty, opened, sem, holds, folders, creates, srvFolders, srvFiles, srvRecv>>

Load(p, f, len, off) ==
    /\ g[p].pc = "idle"
    /\ ~(off < 0 \/ len < 0)
    /\ GetToken(p)
    /\ g' = [g EXCEPT ![p] = [Idle EXCEPT !.pc = "content", !.op = "Load", !.h = f,
                                          !.length = len, !.pos = off]]
    /\ UNCHANGED <<avars, lvars, connections, faulty, opened, folders, creates, srvFolders, srvFiles, srvRecv>>

\* a Load that returns the error and keeps the token
LoadFailedLeak(p) ==
    /\ g[p].pc = "content"
    /\ \E status \in ServerItemContent(Filename(g[p].h)) \cup Faults :
        /\ onedriveItemContent(status) # ErrNil
        /\ g' = [g EXCEPT ![p].pc = "ret",
                          ![p].err = onedriveItemContent(status),
                          ![p].log = Sent(p, Client, "GET", Filename(g[p].h),
                                          byteRange(g[p].length, g[p].pos), status)]
    /\ UNCHANGED <<avars, lvars, connections, faulty, opened, sem, holds, folders, creates, srvFolders, srvFiles, srvRecv>>

\* Load: onedriveItemContent failed: ReleaseToken, cancel, return nil, err
LoadFailed(p) ==
    /\ g[p].pc = "content"
    /\ \E status \in ServerItemContent(Filename(g[p].h)) \cup Faults :
        /\ onedriveItemContent(status) # ErrNil
        /\ g' = [g EXCEPT ![p].pc = "ret",
                          ![p].err = onedriveItemContent(status),
                          ![p].log = Sent(p, Client, "GET", Filename(g[p].h),
                                          byteRange(g[p].length, g[p].pos), status)]
    /\ ReleaseToken(p)
    /\ UNCHANGED <<avars, lvars, connections, faulty, opened, folders, creates, srvFolders, srvFiles, srvRecv>>

\* Load: the body is there: return ReleaseTokenOnClose(rd, cancel), nil
LoadDone(p) ==
    /\ g[p].pc = "content"
    /\ \E status \in ServerItemContent(Filename(g[p].h)) \cup Faults :
        /\ onedriveItemContent(status) = ErrNil
        /\ g' = [g EXCEPT ![p].pc = "ret", ![p].val = 1,
                          ![p].log = Sent(p, Client, "GET", Filename(g[p].h),
                                          byteRange(g[p].length, g[p].pos), status)]
    /\ UNCHANGED <<avars, lvars, connections, faulty, opened, sem, holds, folders, creates, srvFolders, srvFiles, srvRecv>>

\* Load returns: the caller has the reader (val = 1) or the error
LoadReturn(p) ==
    /\ g[p].pc = "ret" /\ g[p].op = "Load"
    /\ g' = [g EXCEPT ![p] = IF g[p].err = ErrNil
                             THEN [g[p] EXCEPT !.pc = "reading"] ELSE Idle]
    /\ UNCHANGED <<avars, lvars, connections, faulty, opened, sem, holds, folders, creates, srvFolders, srvFiles, srvRecv>>

\* a reader whose Close leaves the token where it is
CloseKeepsToken(p) ==
    /\ g[p].pc = "reading"
    /\ g' = [g EXCEPT ![p] = Idle]
    /\ UNCHANGED <<avars, lvars, connections, faulty, opened, sem, holds, folders, creates, srvFolders, srvFiles, srvRecv>>

\* the caller closes the reader Load returned: the close hook releases the token
ReleaseTokenOnClose(p) ==
    /\ g[p].pc = "reading"
    /\ ReleaseToken(p)
    /\ g' = [g EXCEPT ![p] = Idle]
    /\ UNCHANGED <<avars, lvars, connections, faulty, opened, folders, creates, srvFolders, srvFiles, srvRecv>>

\* -------------------------------------------------------------------- List
Listers == 0..(Connections - 1)
Workers == 1..(Connections - 1)

\* the names the remote can list
AllNames == {d[Len(d)] : d \in AllDirs \cup FilePaths}

NoLink == 0 - 1

\* a goroutine of List: pc (where it is), path and off (listChildren's url:
\* the folder and the @odata.nextLink, NoLink being ""), page (the children
\* it still has to hand to its consumer), tok (tokens it has taken and not
\* released)
LIdle == [pc |-> "off", path |-> <<>>, off |-> 0, page |-> <<>>, tok |-> 0]

\* stderr: the errors of onedriveGetChildren that listChildren has printed
NoList == [t |-> "", ctxDone |-> FALSE, ch |-> "none", subdirs |-> {}, subch |-> "none",
           stderr |-> {}]

\* the receiving goroutine: pc, tok (as above), got (name -> times received)
NoConsumer == [pc |-> "none", tok |-> 0, got |-> [n \in AllNames |-> 0]]

RECURSIVE SetToSeq(_)
SetToSeq(S) ==
    IF S = {} THEN <<>>
    ELSE LET x == CHOOSE y \in S : TRUE IN <<x>> \o SetToSeq(S \ {x})

\* the remote: the names of the children of a folder, in the remote's order
Children(path) ==
    LET items == {c \in srvFolders \cup {f \in FilePaths : srvFiles[f] # NoFile} :
                      Len(c) = Len(path) + 1 /\ Parent(c) = path}
    IN  SetToSeq({c[Len(c)] : c \in items})

\* GET children: 200 with a page for a folder, 404 without
ServerGetChildren(path) == IF path \in srvFolders THEN StatusOK ELSE StatusNotFound

Min(a, b) == IF a < b THEN a ELSE b

\* the page of a listing that starts at off, and the link to the next one
ServerPage(path, off) ==
    SubSeq(Children(path), off + 1, Min(off + PageSize, Len(Children(path))))

ServerNextLink(path, off) ==
    IF off + PageSize < Len(Children(path)) THEN off + PageSize ELSE NoLink

onedriveGetChildren(status) ==
    IF status = ErrTransport THEN ErrTransport
    ELSE IF ~isHTTPSuccess(status) THEN newHTTPError(status)
    ELSE ErrNil

\* List: timeoutContext, make(chan string), and the goroutine is started;
\* the caller has the channel and receives from it
List(t) ==
    /\ opened
    /\ lst.ch = "none"
    /\ lst' = [NoList EXCEPT !.t = t, !.ch = "open"]
    /\ l' = [l EXCEPT ![0] = [LIdle EXCEPT !.pc = "get", !.path = BasedirName(t)]]
    /\ cons' = [NoConsumer EXCEPT !.pc = "recv"]
    /\ UNCHANGED <<avars, sem, beVars>>

\* the context of List is done: its timeout, or the caller's cancel
ctxDone ==
    /\ lst.ch = "open" /\ ~lst.ctxDone
    /\ lst' = [lst EXCEPT !.ctxDone = TRUE]
    /\ UNCHANGED <<avars, sem, beVars, l, cons>>

\* listChildren goes on to the next page without a token
listChildrenGetNoToken(w) ==
    /\ l[w].pc = "get"
    /\ l' = [l EXCEPT ![w].pc = "req"]
    /\ UNCHANGED <<avars, sem, beVars, lst, cons>>

\* listChildren: be.sem.GetToken(), and the page request goes out
listChildrenGet(w) ==
    /\ l[w].pc = "get"
    /\ sem < connections
    /\ sem' = sem + 1
    /\ l' = [l EXCEPT ![w].pc = "req", ![w].tok = @ + 1]
    /\ UNCHANGED <<avars, beVars, lst, cons>>

\* where a goroutine of List is after listChildren has returned: the first
\* one has the subdirs and starts the workers, or, without subdirs, is about
\* to close; a worker is back at its range over subch
AfterListChildren(ll, w) ==
    IF w # 0 THEN [ll EXCEPT ![w] = [LIdle EXCEPT !.pc = "range", !.tok = ll[w].tok]]
    ELSE IF hasSubdirs(lst.t)
    THEN [x \in Listers |-> IF x = 0 THEN [LIdle EXCEPT !.pc = "push", !.tok = ll[0].tok]
                             ELSE IF x <= connections - 1 THEN [LIdle EXCEPT !.pc = "range"]
                             ELSE LIdle]
    ELSE [ll EXCEPT ![0] = [LIdle EXCEPT !.pc = "closing", !.tok = ll[0].tok]]

\* whether the goroutine's consumer is resultForwarder (or the subdirs collector)
Forwards(w) == w # 0 \/ ~hasSubdirs(lst.t)

\* listChildren: the page has arrived; the children are handed to the
\* consumer while the token is still held
listChildrenPageHolding(w) ==
    /\ l[w].pc = "req"
    /\ \E status \in IF lst.ctxDone THEN {ErrTransport}
                     ELSE {ServerGetChildren(l[w].path)} \cup Faults :
        LET children == ServerPage(l[w].path, l[w].off)
            next == ServerNextLink(l[w].path, l[w].off)
        IN  /\ sem' = sem
            /\ IF onedriveGetChildren(status) # ErrNil
               THEN /\ l' = AfterListChildren(l, w)
                    /\ lst' = [lst EXCEPT !.stderr = @ \cup {onedriveGetChildren(status)}]
               ELSE IF Forwards(w) /\ children # <<>>
               THEN /\ l' = [l EXCEPT ![w].pc = "send", ![w].page = children,
                                      ![w].off = next]
                    /\ lst' = lst
               ELSE /\ lst' = [lst EXCEPT !.subdirs = @ \cup {children[i] : i \in 1..Len(children)}]
                    /\ l' = IF next = NoLink
                            THEN AfterListChildren(l, w)
                            ELSE [l EXCEPT ![w].pc = "get", ![w].off = next]
    /\ UNCHANGED <<avars, beVars, cons>>

\* listChildren: the answer of onedriveGetChildren, be.sem.ReleaseToken(),
\* then the error return or the loop over the children: the collector takes
\* them all, resultForwarder is at its select with the first
listChildrenPage(w) ==
    /\ l[w].pc = "req"
    /\ \E status \in IF lst.ctxDone THEN {ErrTransport}
                     ELSE {ServerGetChildren(l[w].path)} \cup Faults :
        LET children == ServerPage(l[w].path, l[w].off)
            next == ServerNextLink(l[w].path, l[w].off)
            rel == [l EXCEPT ![w].tok = @ - 1]
        IN  /\ sem' = sem - 1
            /\ IF onedriveGetChildren(status) # ErrNil
               THEN /\ l' = AfterListChildren(rel, w)
                    /\ lst' = [lst EXCEPT !.stderr = @ \cup {onedriveGetChildren(status)}]
               ELSE IF Forwards(w) /\ children # <<>>
               THEN /\ l' = [rel EXCEPT ![w].pc = "send", ![w].page = children,
                                        ![w].off = next]
                    /\ lst' = lst
               ELSE /\ lst' = [lst EXCEPT !.subdirs = @ \cup {children[i] : i \in 1..Len(children)}]
                    /\ l' = IF next = NoLink
                            THEN AfterListChildren(rel, w)
                            ELSE [rel EXCEPT ![w].pc = "get", ![w].off = next]
    /\ UNCHANGED <<avars, beVars, cons>>

\* resultForwarder: ch <- item.Name, the receiver being there; then the next
\* child, the next page, or the end of listChildren
resultForwarder(w) ==
    /\ l[w].pc = "send"
    /\ lst.ch = "open"
    /\ cons.pc = "recv"
    /\ cons' = [cons EXCEPT !.pc = "got",
                            !.got[Head(l[w].page)] = Min(@ + 1, 2)]
    /\ l' = IF Tail(l[w].page) # <<>> THEN [l EXCEPT ![w].page = Tail(@)]
            ELSE IF l[w].off # NoLink THEN [l EXCEPT ![w].pc = "get", ![w].page = <<>>]
            ELSE AfterListChildren(l, w)
    /\ UNCHANGED <<avars, sem, beVars, lst>>

\* resultForwarder: <-ctx.Done(), and listChildren returns
resultForwarderDone(w) ==
    /\ l[w].pc = "send"
    /\ lst.ctxDone
    /\ l' = AfterListChildren(l, w)
    /\ UNCHANGED <<avars, sem, beVars, lst, cons>>

\* subch <- subdir: a worker takes the subdir and starts its listChildren
pushSubdir(w) ==
    /\ l[0].pc = "push"
    /\ l[w].pc = "range"
    /\ lst.subch # "closed"
    /\ \E subdir \in lst.subdirs :
        /\ lst' = [lst EXCEPT !.subdirs = @ \ {subdir}, !.subch = "open"]
        /\ l' = [l EXCEPT ![w].pc = "get",
                          ![w].path = BasedirName(lst.t) \o <<subdir>>,
                          ![w].off = 0]
    /\ UNCHANGED <<avars, sem, beVars, cons>>

\* close(subch) after the last subdir, then wg.Wait()
closeSubch ==
    /\ l[0].pc = "push"
    /\ lst.subdirs = {}
    /\ lst' = [lst EXCEPT !.subch = "closed"]
    /\ l' = [l EXCEPT ![0].pc = "wait"]
    /\ UNCHANGED <<avars, sem, beVars, cons>>

\* a worker's range over subch ends: wg.Done()
workerDone(w) ==
    /\ l[w].pc = "range"
    /\ lst.subch = "closed"
    /\ l' = [l EXCEPT ![w].pc = "exit"]
    /\ UNCHANGED <<avars, sem, beVars, lst, cons>>

\* the goroutine of List returns: the deferred close(ch) and cancel()
closeCh ==
    /\ \/ l[0].pc = "closing"
       \/ l[0].pc = "wait" /\ \A w \in 1..(connections - 1) : l[w].pc = "exit"
    /\ lst' = [lst EXCEPT !.ch = "closed", !.ctxDone = TRUE]
    /\ l' = [l EXCEPT ![0].pc = "done"]
    /\ UNCHANGED <<avars, sem, beVars, cons>>

\* the receiver, with a name, takes a token for what it does with it
consumerGetToken ==
    /\ cons.pc = "got"
    /\ sem < connections
    /\ sem' = sem + 1
    /\ cons' = [cons EXCEPT !.pc = "work", !.tok = @ + 1]
    /\ UNCHANGED <<avars, beVars, lst, l>>

\* ... and releases it and receives again
consumerReleaseToken ==
    /\ cons.pc = "work"
    /\ sem' = sem - 1
    /\ cons' = [cons EXCEPT !.pc = "recv", !.tok = @ - 1]
    /\ UNCHANGED <<avars, beVars, lst, l>>

\* the receiver finds the channel closed
consumerEnd ==
    /\ cons.pc = "recv"
    /\ lst.ch = "closed"
    /\ cons' = [cons EXCEPT !.pc = "end"]
    /\ UNCHANGED <<avars, sem, beVars, lst, l>>

\* the receiver stops receiving and leaves the channel alone
consumerStop ==
    /\ cons.pc = "recv"
    /\ lst.ch = "open"
    /\ cons' = [cons EXCEPT !.pc = "gone"]
    /\ UNCHANGED <<avars, sem, beVars, lst, l>>

\* the channel is dropped; List can be called again
ListForget ==
    /\ cons.pc = "end" \/ (cons.pc = "gone" /\ lst.ch = "closed")
    /\ lst' = NoList
    /\ l' = [w \in Listers |-> LIdle]
    /\ cons' = NoConsumer
    /\ UNCHANGED <<avars, sem, beVars>>

\* ------------------------------------------------------------------- open
openProbeNoExistsCheck(createNew, e) ==
    IF e # ErrNil /\ ~isNotExist(e) THEN e ELSE ErrNil

\* open: what it returns right after the config probe gave e; ErrNil: it goes on
openProbe(createNew, e) ==
    IF e # ErrNil /\ ~isNotExist(e) THEN e
    ELSE IF e = ErrNil /\ createNew THEN ErrConfigExists
    ELSE ErrNil

\* Open (createNew = FALSE) and Create (createNew = TRUE): the config probe
\* goes out; the instance the caller had is given up
open(p, createNew) ==
    /\ g[p].pc = "idle"
    /\ sem = 0
    /\ opened' = FALSE
    /\ g' = [g EXCEPT ![p] = [Idle EXCEPT !.pc = "probe",
                                          !.op = IF createNew THEN "Create" ELSE "Open"]]
    /\ UNCHANGED <<avars, lvars, connections, faulty, sem, holds, folders, creates, srvFolders, srvFiles, srvRecv>>

\* open: the answer to the probe; past it the new instance is there with an
\* empty folders map and a full semaphore, and Create goes on to createFolders
openProbeDone(p) ==
    /\ g[p].pc = "probe"
    /\ \E status \in {ServerItemInfo(ConfigPath)} \cup Faults :
        LET e == openProbe(g[p].op = "Create", onedriveItemInfo(status))
            sent == Sent(p, Client, "GET", ConfigPath, NoRange, status)
        IN  IF e # ErrNil
            THEN /\ g' = [g EXCEPT ![p].pc = "ret", ![p].err = e, ![p].log = sent]
                 /\ UNCHANGED <<folders, creates, sem>>
            ELSE /\ folders' = [d \in AllDirs |-> "none"]
                 /\ creates' = [d \in AllDirs |-> 0]
                 /\ sem' = NewSemaphore
                 /\ g' = [g EXCEPT ![p].pc = IF g[p].op = "Create" THEN "folders" ELSE "ret",
                                   ![p].idx = 1, ![p].log = sent]
    /\ UNCHANGED <<avars, lvars, connections, faulty, opened, holds, srvFolders, srvFiles, srvRecv>>

\* open returns: the caller has the instance, or the error
openReturn(p) ==
    /\ g[p].pc = "ret" /\ g[p].op \in {"Open", "Create"}
    /\ opened' = (g[p].err = ErrNil)
    /\ g' = [g EXCEPT ![p] = Idle]
    /\ UNCHANGED <<avars, lvars, connections, faulty, sem, holds, folders, creates, srvFolders, srvFiles, srvRecv>>

\* ----------------------------------------------------------- archive tree
\* A path is the sequence of its segments; an absolute path starts with the
\* segment "/", and the empty string is the empty sequence.
Separator == "/"
EmptyPath == <<>>
Dot == <<".">>

\* errors of the archive tree
ErrEmptyTarget == 0 - 10
ErrNoPathComponents == 0 - 11
ErrInvalidPath == 0 - 12
ErrPathAlreadySet == 0 - 13

IsAbs(p) == p # EmptyPath /\ p[1] = Separator

\* filepath.Clean, segment by segment: "." and empty segments go, ".." takes
\* the segment before it away, stays in front of a relative path and is
\* dropped at the root
RECURSIVE CleanSegments(_, _, _)
CleanSegments(abs, segs, out) ==
    IF segs = <<>> THEN out
    ELSE LET s == Head(segs)
             rest == Tail(segs)
         IN  IF s = "." \/ s = "" THEN CleanSegments(abs, rest, out)
             ELSE IF s # ".." THEN CleanSegments(abs, rest, Append(out, s))
             ELSE IF out # <<>> /\ out[Len(out)] # ".."
                  THEN CleanSegments(abs, rest, SubSeq(out, 1, Len(out) - 1))
             ELSE IF abs THEN CleanSegments(abs, rest, out)
             ELSE CleanSegments(abs, rest, Append(out, ".."))

Clean(p) ==
    IF IsAbs(p) THEN <<Separator>> \o CleanSegments(TRUE, Tail(p), <<>>)
    ELSE LET c == CleanSegments(FALSE, p, <<>>)
         IN  IF c = <<>> THEN Dot ELSE c

\* filepath.Join: the elements put together and cleaned
Join(a, b) == Clean(a \o b)

\* filepath.Dir and filepath.Base of a cleaned path
Dir(p) ==
    IF Len(p) > 1 THEN SubSeq(p, 1, Len(p) - 1)
    ELSE IF IsAbs(p) THEN p ELSE Dot

Base(p) == IF p = EmptyPath THEN "." ELSE p[Len(p)]

\* the loop of pathComponents: Base after Base until Dir changes nothing,
\* then reversed
RECURSIVE Components(_)
Components(p) ==
    LET dir == Dir(p)
    IN  IF p = dir THEN <<>> ELSE Append(Components(dir), Base(p))

\* pathComponents; there is no volume name on a system whose separator is "/"
pathComponents(p, includeRelative) ==
    LET q == IF ~IsAbs(p) /\ ~includeRelative THEN Join(<<Separator>>, p) ELSE p
    IN  Components(Clean(q))

\* rel of rootDirectory: "." joined with every ".." among the components
RECURSIVE JoinDotDots(_, _)
JoinDotDots(rel, pc) ==
    IF pc = <<>> THEN rel
    ELSE JoinDotDots(IF Head(pc) = ".." THEN Join(rel, <<"..">>) ELSE rel, Tail(pc))

rootDirectory(target) ==
    IF target = EmptyPath THEN EmptyPath
    ELSE IF IsAbs(target) THEN <<Separator>>
    ELSE JoinDotDots(Dot, pathComponents(Clean(target), TRUE))

\* An ArchiveTree is kept flat: the function from the address of a node (the
\* names from the top down to it) to its Path, FileInfoPath and Root; the
\* Nodes of a node are the addresses one name longer.
ArchiveTree == [Path |-> EmptyPath, FileInfoPath |-> EmptyPath, Root |-> EmptyPath]
EmptyTree == [a \in {} |-> ArchiveTree]

\* t.Nodes[name] = node
SetNode(tree, a, node) == [b \in DOMAIN tree \cup {a} |-> IF b = a THEN node ELSE tree[b]]

\* fmt.Sprintf("%s-%d", origName, i)
SuffixedName(origName, i) == origName \o "-" \o ToString(i)

\* add with a new node for every name on the way, the node that is there
\* not taken over
RECURSIVE addFresh(_, _, _, _, _)
addFresh(tree, addr, target, root, pc) ==
    IF Len(pc) = 0 THEN [err |-> ErrInvalidPath, tree |-> tree]
    ELSE
    LET name == pc[1]
        a == Append(addr, name)
        ok == a \in DOMAIN tree
    IN  IF Len(pc) = 1
        THEN IF ~ok
             THEN [err |-> ErrNil,
                   tree |-> SetNode(tree, a, [ArchiveTree EXCEPT !.Path = target])]
             ELSE IF tree[a].Path # EmptyPath
             THEN [err |-> ErrPathAlreadySet, tree |-> tree]
             ELSE [err |-> ErrNil, tree |-> [tree EXCEPT ![a].Path = target]]
        ELSE LET subroot == Join(root, <<name>>)
             IN  addFresh(SetNode(tree, a, [ArchiveTree EXCEPT !.FileInfoPath = subroot]),
                          a, target, subroot, Tail(pc))

\* ArchiveTree.add on the node at addr; what it returns and the tree after it
RECURSIVE add(_, _, _, _, _)
add(tree, addr, target, root, pc) ==
    IF Len(pc) = 0 THEN [err |-> ErrInvalidPath, tree |-> tree]
    ELSE
    LET name == pc[1]
        a == Append(addr, name)
        ok == a \in DOMAIN tree
    IN  IF Len(pc) = 1
        THEN IF ~ok
             THEN [err |-> ErrNil,
                   tree |-> SetNode(tree, a, [ArchiveTree EXCEPT !.Path = target])]
             ELSE IF tree[a].Path # EmptyPath
             THEN [err |-> ErrPathAlreadySet, tree |-> tree]
             ELSE [err |-> ErrNil, tree |-> [tree EXCEPT ![a].Path = target]]
        ELSE LET subroot == Join(root, <<name>>)
                 other == IF ok THEN tree[a] ELSE ArchiveTree
             IN  add(SetNode(tree, a, [other EXCEPT !.FileInfoPath = subroot]),
                     a, target, subroot, Tail(pc))

\* the loop without its comparison of the roots: the first name that is free
RECURSIVE ResolveNameFirstFree(_, _, _, _)
ResolveNameFirstFree(tree, origName, root, i) ==
    LET name == IF i = 0 THEN origName ELSE SuffixedName(origName, i)
    IN  IF <<name>> \notin DOMAIN tree THEN [name |-> name, ok |-> FALSE]
        ELSE ResolveNameFirstFree(tree, origName, root, i + 1)

\* the loop of Add that looks for the name: origName, then origName-1,
\* origName-2, ... until the name is free or belongs to a node of this root
RECURSIVE ResolveName(_, _, _, _)
ResolveName(tree, origName, root, i) ==
    LET name == IF i = 0 THEN origName ELSE SuffixedName(origName, i)
    IN  IF <<name>> \notin DOMAIN tree THEN [name |-> name, ok |-> FALSE]
        ELSE IF tree[<<name>>].Root = root THEN [name |-> name, ok |-> TRUE]
        ELSE ResolveName(tree, origName, root, i + 1)

\* ArchiveTree.Add on the top of the tree
Add(tree, target) ==
    LET pc == pathComponents(target, FALSE)
    IN  IF target = EmptyPath THEN [err |-> ErrEmptyTarget, tree |-> tree]
        ELSE IF Len(pc) = 0 THEN [err |-> ErrNoPathComponents, tree |-> tree]
        ELSE
        LET origName == pc[1]
            root == rootDirectory(target)
            found == ResolveName(tree, origName, root, 0)
            a == <<found.name>>
            node == IF found.ok THEN tree[a] ELSE [ArchiveTree EXCEPT !.Root = root]
        IN  IF Len(pc) > 1
            THEN LET subroot == Join(root, <<origName>>)
                     r == add(SetNode(tree, a, node), a, target, subroot, Tail(pc))
                 IN  IF r.err # ErrNil THEN [err |-> r.err, tree |-> tree]
                     ELSE [err |-> ErrNil,
                           tree |-> [r.tree EXCEPT ![a].FileInfoPath = subroot]]
            ELSE [err |-> ErrNil,
                  tree |-> SetNode(tree, a, [node EXCEPT !.Path = target])]

\* NewArchiveTree is not running
NoTree == [pc |-> "idle", targets |-> <<>>, i |-> 0, seen |-> {},
           tree |-> EmptyTree, err |-> ErrNil]

\* NewArchiveTree(targets) is called: nothing seen, the tree empty
NewArchiveTree(targets) ==
    /\ at.pc = "idle"
    /\ at' = [NoTree EXCEPT !.pc = "range", !.targets = targets, !.i = 1]
    /\ UNCHANGED <<sem, beVars, lvars, sn, ix, cf, pn, ck>>

\* one round of its loop: the target cleaned, skipped when seen, else added;
\* an error of Add ends the call with no tree
NewArchiveTreeRange ==
    /\ at.pc = "range" /\ at.i <= Len(at.targets)
    /\ LET target == Clean(at.targets[at.i])
           r == Add(at.tree, target)
       IN  at' = IF target \in at.seen THEN [at EXCEPT !.i = @ + 1]
                 ELSE IF r.err # ErrNil
                 THEN [at EXCEPT !.pc = "ret", !.seen = @ \cup {target},
                                 !.tree = EmptyTree, !.err = r.err]
                 ELSE [at EXCEPT !.i = @ + 1, !.seen = @ \cup {target},
                                 !.tree = r.tree]
    /\ UNCHANGED <<sem, beVars, lvars, sn, ix, cf, pn, ck>>

\* the loop is through: the tree is returned
NewArchiveTreeReturn ==
    /\ at.pc = "range" /\ at.i > Len(at.targets)
    /\ at' = [at EXCEPT !.pc = "ret"]
    /\ UNCHANGED <<sem, beVars, lvars, sn, ix, cf, pn, ck>>

\* the caller is done with the result
NewArchiveTreeForget ==
    /\ at.pc = "ret"
    /\ at' = NoTree
    /\ UNCHANGED <<sem, beVars, lvars, sn, ix, cf, pn, ck>>

\* NewArchiveTree as a function of the target list: the loop run to its end
RECURSIVE RangeTargets(_, _, _)
RangeTargets(targets, seen, tree) ==
    IF targets = <<>> THEN [err |-> ErrNil, tree |-> tree]
    ELSE LET target == Clean(Head(targets))
             r == Add(tree, target)
         IN  IF target \in seen THEN RangeTargets(Tail(targets), seen, tree)
             ELSE IF r.err # ErrNil THEN [err |-> r.err, tree |-> EmptyTree]
             ELSE RangeTargets(Tail(targets), seen \cup {target}, r.tree)

BuildTree(targets) == RangeTargets(targets, {}, EmptyTree)


\* ---------------------------------------------------------------- archiver
\* The file system the archiver reads: the working directory holds the
\* directory work (file foo, directory subdir with file other) and the file
\* other. A regular file is the sequence of its chunks.
Cwd == <<Separator, "src">>

\* filepath.Abs
Abs(p) == IF IsAbs(p) THEN Clean(p) ELSE Join(Cwd, p)

DirItems == {<<Separator>>, Cwd, Cwd \o <<"work">>, Cwd \o <<"work", "subdir">>}

\* the chunks the chunker cuts a file into
ChunksOf(item, n) == [i \in 1..n |-> <<item, i>>]

FileItems ==
    LET foo == Cwd \o <<"work", "foo">>
        deep == Cwd \o <<"work", "subdir", "other">>
        other == Cwd \o <<"other">>
    IN  (foo :> ChunksOf(foo, 1)) @@ (deep :> ChunksOf(deep, MaxChunks))
        @@ (other :> ChunksOf(other, 0))

Items == DirItems \cup DOMAIN FileItems

\* what Select can be asked about
Selectable == Items \ {<<Separator>>, Cwd}

\* fs.Lstat finds the item; fs.IsRegularFile(fi) and fi.IsDir()
Lstat(p) == Abs(p) \in Items
IsRegularFile(p) == Abs(p) \in DOMAIN FileItems
IsDir(p) == Abs(p) \in DirItems

\* Readdir and Readdirnames: the names in a directory
Entries(dir) == {Base(q) : q \in {q \in Items : q # Abs(dir) /\ Dir(q) = Abs(dir)}}

\* every order of the elements of a set
RECURSIVE Orders(_)
Orders(S) ==
    IF S = {} THEN {<<>>}
    ELSE UNION {{<<x>> \o rest : rest \in Orders(S \ {x})} : x \in S}

\* errors of the archiver
ErrRepoNotSet == 0 - 20
ErrSelectNotSet == 0 - 21
ErrNotExist == 0 - 22
ErrRepo == 0 - 23
ErrFileInfoPathEmpty == 0 - 24
ErrNewSnapshot == 0 - 25
ErrCanceled == 0 - 26
ErrNodeType == 0 - 27

\* arch.Select when it is nil
NilSelect == {Cwd}

\* arch.Select(item, fi), the SelectFunc being given by the items it rejects
Select(rejected, item) == item \notin rejected

\* NewArchiver.Valid
Valid(repoSet, rejected) ==
    IF ~repoSet THEN ErrRepoNotSet
    ELSE IF rejected = NilSelect THEN ErrSelectNotSet
    ELSE ErrNil

\* the loop of resolveRelativeTargets for one target: the target itself, or,
\* for a target without path components, the names read from it in the
\* order Readdirnames gave, each joined to it
RECURSIVE JoinEach(_, _)
JoinEach(target, names) ==
    IF names = <<>> THEN <<>>
    ELSE <<Join(target, <<Head(names)>>)>> \o JoinEach(target, Tail(names))

\* a Snapshot that hands its targets to NewArchiveTree as they are
resolveNoTargets(targets) == {[err |-> ErrNil, result |-> targets]}

\* resolveRelativeTargets: err, or the result for each order of the entries
RECURSIVE resolveRelativeTargets(_)
resolveRelativeTargets(targets) ==
    IF targets = <<>> THEN {[err |-> ErrNil, result |-> <<>>]}
    ELSE LET target == Head(targets)
             rest == resolveRelativeTargets(Tail(targets))
         IN  IF Len(pathComponents(target, FALSE)) > 0
             THEN {IF r.err # ErrNil THEN r ELSE [r EXCEPT !.result = <<target>> \o @]
                      : r \in rest}
             ELSE IF ~IsDir(target) THEN {[err |-> ErrNotExist, result |-> <<>>]}
             ELSE {IF r.err # ErrNil THEN r
                   ELSE [r EXCEPT !.result = JoinEach(target, names) \o @]
                      : r \in rest, names \in Orders(Entries(target))}

\* restic.Node as far as the archiver fills it: Name, the item the metadata
\* is of, Type, Content (the IDs of its chunks) and Subtree (the ID of a
\* tree, an ID being the content it is the hash of)
Node(name, item, type, content, subtree) ==
    [Name |-> name, item |-> item, Type |-> type, Content |-> content, Subtree |-> subtree]

\* A call on the stack of the archiver: saveArchiveTree on the node at addr
\* of the archive tree, saveTree (from SaveDir) on the directory path, or
\* SaveFile on the file path; todo is what its loop has yet to visit, tree
\* the nodes inserted so far, content the IDs appended so far, and name the
\* name its node gets in the tree of the call below it.
Frame(fn, name, addr, path, todo) ==
    [fn |-> fn, name |-> name, addr |-> addr, path |-> path, todo |-> todo,
     tree |-> {}, content |-> <<>>]

\* Snapshot is not running
NoSnapshot == [pc |-> "idle", targets |-> <<>>, rejected |-> {}, atree |-> EmptyTree,
               stack |-> <<>>, tree |-> {}, log |-> <<>>, walked |-> {},
               failed |-> FALSE, err |-> ErrNil, ctx |-> "background"]

\* the names of the Nodes of the archive tree node at addr
NodeNames(atree, addr) ==
    {a[Len(a)] : a \in {a \in DOMAIN atree : Len(a) = Len(addr) + 1
                                              /\ SubSeq(a, 1, Len(addr)) = addr}}

\* a step of Snapshot fails: it returns the error
SnapshotFails(err) ==
    sn' = [sn EXCEPT !.pc = "ret", !.err = err, !.failed = TRUE, !.stack = <<>>]

\* the call on top of the stack and the stack without it
Top == sn.stack[Len(sn.stack)]
Below == SubSeq(sn.stack, 1, Len(sn.stack) - 1)

\* the call on top visits x next and goes on
Visited(x) == Below \o <<[Top EXCEPT !.todo = @ \ {x}]>>

\* the call on top returns node to the call below it, which inserts it
Returned(node) ==
    [Below EXCEPT ![Len(Below)].tree = @ \cup {node}]

\* Snapshot(ctx, targets) on an archiver: Valid, then the targets cleaned
Snapshot(targets, repoSet, rejected) ==
    /\ sn.pc = "idle"
    /\ LET err == Valid(repoSet, rejected)
       IN  sn' = IF err # ErrNil
                 THEN [NoSnapshot EXCEPT !.pc = "ret", !.err = err, !.failed = TRUE]
                 ELSE [NoSnapshot EXCEPT !.pc = "resolve", !.rejected = rejected,
                           !.targets = [i \in 1..Len(targets) |-> Clean(targets[i])]]
    /\ UNCHANGED <<sem, beVars, lvars, at, ix, cf, pn, ck>>

\* targets, err = resolveRelativeTargets(targets)
SnapshotResolve ==
    /\ sn.pc = "resolve"
    /\ \E r \in resolveRelativeTargets(sn.targets) :
          IF r.err # ErrNil THEN SnapshotFails(r.err)
          ELSE sn' = [sn EXCEPT !.pc = "newtree", !.targets = r.result]
    /\ UNCHANGED <<sem, beVars, lvars, at, ix, cf, pn, ck>>

\* atree, err := NewArchiveTree(targets), then saveArchiveTree(ctx, "/", atree)
\* is entered
SnapshotNewArchiveTree ==
    /\ sn.pc = "newtree"
    /\ LET r == BuildTree(sn.targets)
       IN  IF r.err # ErrNil THEN SnapshotFails(r.err)
           ELSE sn' = [sn EXCEPT !.pc = "save", !.atree = r.tree,
                           !.stack = <<Frame("saveArchiveTree", "", <<>>, EmptyPath,
                                             NodeNames(r.tree, <<>>))>>]
    /\ UNCHANGED <<sem, beVars, lvars, at, ix, cf, pn, ck>>

\* Save(ctx, prefix, target) and the entry of saveTree's loop share the
\* switch on the file type: SaveFile is entered, or SaveDir, whose saveTree
\* opens and reads the directory; the file system has no other types
Enter(name, pathname) ==
    IF IsRegularFile(pathname)
    THEN sn' = [sn EXCEPT !.stack = Visited(name) \o
                    <<Frame("SaveFile", name, <<>>, pathname,
                            1..Len(FileItems[Abs(pathname)]))>>]
    ELSE sn' = [sn EXCEPT !.walked = @ \cup {Abs(pathname)},
                          !.stack = Visited(name) \o
                    <<Frame("saveTree", name, <<>>, pathname, Entries(pathname))>>]

\* one round of the loop of saveArchiveTree: a node with a Path is a leaf and
\* goes to Save, which returns nil for an item Select rejects; another node
\* is a subtree saveArchiveTree descends into
saveArchiveTreeNode ==
    /\ sn.pc = "save" /\ Top.fn = "saveArchiveTree"
    /\ \E name \in Top.todo :
        LET subatree == sn.atree[Append(Top.addr, name)]
        IN  IF subatree.Path # EmptyPath
            THEN IF ~Lstat(subatree.Path) THEN SnapshotFails(ErrNotExist)
                 ELSE IF ~Select(sn.rejected, Abs(subatree.Path))
                 THEN sn' = [sn EXCEPT !.stack = Visited(name)]
                 ELSE Enter(name, subatree.Path)
            ELSE sn' = [sn EXCEPT !.stack = Visited(name) \o
                            <<Frame("saveArchiveTree", name, Append(Top.addr, name),
                                    EmptyPath,
                                    NodeNames(sn.atree, Append(Top.addr, name)))>>]
    /\ UNCHANGED <<sem, beVars, lvars, at, ix, cf, pn, ck>>

\* the round without the call of Select
saveTreeEntryUnselected ==
    /\ sn.pc = "save" /\ Top.fn = "saveTree"
    /\ \E name \in Top.todo : Enter(name, Join(Top.path, <<name>>))
    /\ UNCHANGED <<sem, beVars, lvars, at, ix, cf, pn, ck>>

\* one round of the loop of saveTree: an entry Select rejects is passed over
saveTreeEntry ==
    /\ sn.pc = "save" /\ Top.fn = "saveTree"
    /\ \E name \in Top.todo :
        LET pathname == Join(Top.path, <<name>>)
        IN  IF ~Select(sn.rejected, Abs(pathname))
            THEN sn' = [sn EXCEPT !.stack = Visited(name)]
            ELSE Enter(name, pathname)
    /\ UNCHANGED <<sem, beVars, lvars, at, ix, cf, pn, ck>>

\* one round of the loop of SaveFile: the next chunk is saved as a Data blob
\* and its ID appended to the content, or SaveBlob fails
SaveFileChunkNoCtx ==
    /\ sn.pc = "save" /\ Top.fn = "SaveFile" /\ Top.todo # {}
    /\ \E ok \in BOOLEAN :
        LET i == Len(Top.content) + 1
            chunk == FileItems[Abs(Top.path)][i]
        IN  IF ~ok THEN SnapshotFails(ErrRepo)
            ELSE sn' = [sn EXCEPT
                    !.log = Append(@, [op |-> "SaveBlob", data |-> chunk]),
                    !.stack = Below \o <<[Top EXCEPT !.todo = @ \ {i},
                                                     !.content = Append(@, chunk)]>>]
    /\ UNCHANGED <<sem, beVars, lvars, at, ix, cf, pn, ck>>

\* one round of the loop of SaveFile with a chunk from the chunker: ctx.Err()
\* is tested, the chunk is saved, ctx.Err() is tested again (a context that
\* can be cancelled may have been while SaveBlob ran), the ID is appended
SaveFileChunk ==
    /\ sn.pc = "save" /\ Top.fn = "SaveFile" /\ Top.todo # {}
    /\ IF sn.ctx = "cancelled" THEN SnapshotFails(ErrCanceled)
       ELSE \E ok \in BOOLEAN, during \in IF sn.ctx = "live" THEN BOOLEAN ELSE {FALSE} :
        LET i == Len(Top.content) + 1
            chunk == FileItems[Abs(Top.path)][i]
        IN  IF ~ok THEN SnapshotFails(ErrRepo)
            ELSE IF during
            THEN sn' = [sn EXCEPT
                    !.pc = "ret", !.err = ErrCanceled, !.failed = TRUE, !.stack = <<>>,
                    !.ctx = "cancelled",
                    !.log = Append(@, [op |-> "SaveBlob", data |-> chunk])]
            ELSE sn' = [sn EXCEPT
                    !.log = Append(@, [op |-> "SaveBlob", data |-> chunk]),
                    !.stack = Below \o <<[Top EXCEPT !.todo = @ \ {i},
                                                     !.content = Append(@, chunk)]>>]
    /\ UNCHANGED <<sem, beVars, lvars, at, ix, cf, pn, ck>>

\* the chunker is at EOF: SaveFile returns the node
SaveFileReturn ==
    /\ sn.pc = "save" /\ Top.fn = "SaveFile" /\ Top.todo = {}
    /\ sn' = [sn EXCEPT !.stack =
                Returned(Node(Top.name, Abs(Top.path), "file", Top.content, {}))]
    /\ UNCHANGED <<sem, beVars, lvars, at, ix, cf, pn, ck>>

\* arch.SaveFile(ctx, filename) called by itself, as TestNewArchiverSaveFile
\* does: the file is opened and its node made, the loop is next
SaveFile(filename, ctx) ==
    /\ sn.pc = "idle"
    /\ sn' = IF ~Lstat(filename)
             THEN [NoSnapshot EXCEPT !.pc = "ret", !.err = ErrNotExist, !.failed = TRUE,
                                     !.ctx = ctx]
             ELSE IF ~IsRegularFile(filename)
             THEN [NoSnapshot EXCEPT !.pc = "ret", !.err = ErrNodeType, !.failed = TRUE,
                                     !.ctx = ctx]
             ELSE [NoSnapshot EXCEPT !.pc = "save", !.ctx = ctx,
                       !.stack = <<Frame("caller", "", <<>>, EmptyPath, {}),
                                   Frame("SaveFile", Base(filename), <<>>, filename,
                                         1..Len(FileItems[Abs(filename)]))>>]
    /\ UNCHANGED <<sem, beVars, lvars, at, ix, cf, pn, ck>>

\* Snapshot on a valid archiver with the context of its caller, which goes
\* down to SaveFile with every call
SnapshotContext(targets, ctx) ==
    /\ sn.pc = "idle"
    /\ sn' = [NoSnapshot EXCEPT !.pc = "resolve", !.rejected = {}, !.ctx = ctx,
                  !.targets = [i \in 1..Len(targets) |-> Clean(targets[i])]]
    /\ UNCHANGED <<sem, beVars, lvars, at, ix, cf, pn, ck>>

\* its caller has the node
SaveFileCaller ==
    /\ sn.pc = "save" /\ Top.fn = "caller"
    /\ sn' = [sn EXCEPT !.pc = "ret"]
    /\ UNCHANGED <<sem, beVars, lvars, at, ix, cf, pn, ck>>

\* cancel() of a context made by context.WithCancel
ctxCancel ==
    /\ sn.pc \notin {"idle", "ret"} /\ sn.ctx = "live"
    /\ sn' = [sn EXCEPT !.ctx = "cancelled"]
    /\ UNCHANGED <<sem, beVars, lvars, at, ix, cf, pn, ck>>

\* saveTree is through: SaveDir saves the tree and returns the node of the
\* directory, or SaveTree fails
SaveDirReturn ==
    /\ sn.pc = "save" /\ Top.fn = "saveTree" /\ Top.todo = {}
    /\ \E ok \in BOOLEAN :
        IF ~ok THEN SnapshotFails(ErrRepo)
        ELSE sn' = [sn EXCEPT
                !.log = Append(@, [op |-> "SaveTree", data |-> Top.tree]),
                !.stack = Returned(Node(Top.name, Abs(Top.path), "dir", <<>>, Top.tree))]
    /\ UNCHANGED <<sem, beVars, lvars, at, ix, cf, pn, ck>>

\* saveArchiveTree on a subtree is through: the tree is saved and the node is
\* made from the directory FileInfoPath names
saveArchiveTreeSubtree ==
    /\ sn.pc = "save" /\ Top.fn = "saveArchiveTree" /\ Top.todo = {}
    /\ Len(sn.stack) > 1
    /\ \E ok \in BOOLEAN :
        LET subatree == sn.atree[Top.addr]
        IN  IF ~ok THEN SnapshotFails(ErrRepo)
            ELSE IF subatree.FileInfoPath = EmptyPath
            THEN sn' = [sn EXCEPT !.pc = "ret", !.err = ErrFileInfoPathEmpty,
                            !.failed = TRUE, !.stack = <<>>,
                            !.log = Append(@, [op |-> "SaveTree", data |-> Top.tree])]
            ELSE IF ~Lstat(subatree.FileInfoPath)
            THEN sn' = [sn EXCEPT !.pc = "ret", !.err = ErrNotExist,
                            !.failed = TRUE, !.stack = <<>>,
                            !.log = Append(@, [op |-> "SaveTree", data |-> Top.tree])]
            ELSE sn' = [sn EXCEPT
                    !.log = Append(@, [op |-> "SaveTree", data |-> Top.tree]),
                    !.stack = Returned(Node(Top.name, Abs(subatree.FileInfoPath), "dir",
                                            <<>>, Top.tree))]
    /\ UNCHANGED <<sem, beVars, lvars, at, ix, cf, pn, ck>>

\* saveArchiveTree(ctx, "/", atree) returns the root tree to Snapshot
saveArchiveTreeReturn ==
    /\ sn.pc = "save" /\ Top.fn = "saveArchiveTree" /\ Top.todo = {}
    /\ Len(sn.stack) = 1
    /\ sn' = [sn EXCEPT !.pc = "SaveTree", !.tree = Top.tree, !.stack = <<>>]
    /\ UNCHANGED <<sem, beVars, lvars, at, ix, cf, pn, ck>>

\* id, err := arch.repo.SaveTree(ctx, tree)
SnapshotSaveTree ==
    /\ sn.pc = "SaveTree"
    /\ \E ok \in BOOLEAN :
        IF ~ok THEN SnapshotFails(ErrRepo)
        ELSE sn' = [sn EXCEPT !.pc = "Flush",
                        !.log = Append(@, [op |-> "SaveTree", data |-> sn.tree])]
    /\ UNCHANGED <<sem, beVars, lvars, at, ix, cf, pn, ck>>

\* err = arch.repo.Flush(ctx)
SnapshotFlush ==
    /\ sn.pc = "Flush"
    /\ \E ok \in BOOLEAN :
        IF ~ok THEN SnapshotFails(ErrRepo)
        ELSE sn' = [sn EXCEPT !.pc = "SaveIndex",
                        !.log = Append(@, [op |-> "Flush", data |-> {}])]
    /\ UNCHANGED <<sem, beVars, lvars, at, ix, cf, pn, ck>>

\* err = arch.repo.SaveIndex(ctx)
SnapshotSaveIndex ==
    /\ sn.pc = "SaveIndex"
    /\ \E ok \in BOOLEAN :
        IF ~ok THEN SnapshotFails(ErrRepo)
        ELSE sn' = [sn EXCEPT !.pc = "NewSnapshot",
                        !.log = Append(@, [op |-> "SaveIndex", data |-> {}])]
    /\ UNCHANGED <<sem, beVars, lvars, at, ix, cf, pn, ck>>

\* sn, err := restic.NewSnapshot(...); sn.Tree = &id. The error is not looked
\* at: when NewSnapshot fails and returns no snapshot, the assignment
\* dereferences nil and Snapshot panics
SnapshotNewSnapshot ==
    /\ sn.pc = "NewSnapshot"
    /\ \E ok \in BOOLEAN :
        sn' = IF ok THEN [sn EXCEPT !.pc = "SaveJSONUnpacked"]
              ELSE [sn EXCEPT !.pc = "panic", !.err = ErrNewSnapshot, !.failed = TRUE]
    /\ UNCHANGED <<sem, beVars, lvars, at, ix, cf, pn, ck>>

\* id, err = arch.repo.SaveJSONUnpacked(ctx, restic.SnapshotFile, sn)
SnapshotSaveJSONUnpacked ==
    /\ sn.pc = "SaveJSONUnpacked"
    /\ \E ok \in BOOLEAN :
        IF ~ok THEN SnapshotFails(ErrRepo)
        ELSE sn' = [sn EXCEPT !.pc = "ret",
                        !.log = Append(@, [op |-> "SaveSnapshot", data |-> sn.tree])]
    /\ UNCHANGED <<sem, beVars, lvars, at, ix, cf, pn, ck>>

\* the caller is done with what Snapshot returned, or the panic has ended
\* the program and it is started again
SnapshotForget ==
    /\ sn.pc \in {"ret", "panic"}
    /\ sn' = NoSnapshot
    /\ UNCHANGED <<sem, beVars, lvars, at, ix, cf, pn, ck>>

\* ------------------------------------------------------------ index stream
\* An index document is the sequence of the members of its top-level object:
\* a key and the array under it, of IDs (supersedes) or of pack records
\* (packs). A pack record has an ID and its blobs.
DataBlob == "data"
TreeBlob == "tree"

Blob(type, id, offset, length) ==
    [Type |-> type, ID |-> id, Offset |-> offset, Length |-> length]

packJSON(id, blobs) == [ID |-> id, Blobs |-> blobs]

\* the zero value of packJSON
ZeroPack == packJSON("", <<>>)

\* the pack records of the documents: a data pack, a tree pack, a pack of
\* both kinds and a pack without blobs
PackRecords ==
    {packJSON("p1", <<Blob(DataBlob, "b1", 0, 10)>>),
     packJSON("p2", <<Blob(TreeBlob, "b2", 0, 10)>>),
     packJSON("p3", <<Blob(TreeBlob, "b3", 0, 10), Blob(DataBlob, "b4", 10, 10)>>),
     packJSON("p4", <<>>)}

\* What json.Decoder reads: delimiters, strings (keys and IDs) and pack
\* records, which Decode takes as one value.
Delim(c) == [kind |-> "delim", text |-> c, pack |-> ZeroPack]
String(s) == [kind |-> "string", text |-> s, pack |-> ZeroPack]
PackValue(p) == [kind |-> "pack", text |-> "", pack |-> p]
NilToken == [kind |-> "nil", text |-> "", pack |-> ZeroPack]

Member(key, ids, packs) == [key |-> key, ids |-> ids, packs |-> packs]

\* the token stream of a document
RECURSIVE MemberTokens(_)
MemberTokens(members) ==
    IF members = <<>> THEN <<>>
    ELSE LET m == Head(members)
         IN  <<String(m.key), Delim("[")>>
             \o [i \in 1..Len(m.ids) |-> String(m.ids[i])]
             \o [i \in 1..Len(m.packs) |-> PackValue(m.packs[i])]
             \o <<Delim("]")>> \o MemberTokens(Tail(members))

Tokens(members) == <<Delim("{")>> \o MemberTokens(members) \o <<Delim("}")>>

\* errors of the decoder
ErrEOF == 0 - 30
ErrUnmarshal == 0 - 31

\* dec.Token(): the next token, or io.EOF at the end of the stream
DecToken(stream, pos) ==
    IF pos > Len(stream) THEN [token |-> NilToken, err |-> ErrEOF, pos |-> pos]
    ELSE [token |-> stream[pos], err |-> ErrNil, pos |-> pos + 1]

\* dec.More(): there is another element in the array or object being read
DecMore(stream, pos) ==
    /\ pos <= Len(stream)
    /\ ~(stream[pos].kind = "delim" /\ stream[pos].text \in {"]", "}"})

\* dec.Decode(&v): the next value when it is of the kind v takes
DecDecode(stream, pos, kind) ==
    IF pos > Len(stream) THEN [token |-> NilToken, err |-> ErrEOF, pos |-> pos]
    ELSE IF stream[pos].kind # kind
    THEN [token |-> NilToken, err |-> ErrUnmarshal, pos |-> pos + 1]
    ELSE [token |-> stream[pos], err |-> ErrNil, pos |-> pos + 1]

\* readBracket and readToken: nothing once j.err is set, else the next
\* token becomes j.token and its error j.err
readToken(j) ==
    IF j.err # ErrNil THEN j
    ELSE LET r == DecToken(j.stream, j.pos)
         IN  [j EXCEPT !.token = r.token, !.err = r.err, !.pos = r.pos]

readBracket(j) == readToken(j)

hasMore(j) == j.err = ErrNil /\ DecMore(j.stream, j.pos)

\* decodeNextValue(&v): the value, the zero value when nothing was decoded
decodeNextValue(j, kind) ==
    IF j.err # ErrNil THEN [j |-> j, value |-> NilToken]
    ELSE LET r == DecDecode(j.stream, j.pos, kind)
         IN  [j |-> [j EXCEPT !.err = r.err, !.pos = r.pos], value |-> r.token]

\* idx.store(PackedBlob{...})
PackedBlob(blob, packID) ==
    [Type |-> blob.Type, ID |-> blob.ID, Offset |-> blob.Offset, Length |-> blob.Length,
     PackID |-> packID]

\* a store that keeps the blobs of the last pack only
StoreBlobsLastPack(entries, pack) ==
    [i \in 1..Len(pack.Blobs) |-> PackedBlob(pack.Blobs[i], pack.ID)]

\* the loop over pack.Blobs: every blob stored, and whether the pack has
\* data blobs and tree blobs
StoreBlobs(entries, pack) ==
    entries \o [i \in 1..Len(pack.Blobs) |-> PackedBlob(pack.Blobs[i], pack.ID)]

\* the flags taken from the first blob alone
HasBlobFirst(pack, type) == Len(pack.Blobs) > 0 /\ pack.Blobs[1].Type = type

HasBlob(pack, type) == \E i \in 1..Len(pack.Blobs) : pack.Blobs[i].Type = type

\* The streamer: impl says which LoadIndex it runs, the one that fills a
\* jsonIndex (index_stream.go) or the one that fills an Index; Packs is
\* idxJson.Packs, entries, treePacks, supersedes and final are the Index,
\* pack is the variable of the loop over the packs, nilResult that LoadIndex
\* returned a nil index.
NoIndex == [pc |-> "idle", impl |-> "", stream |-> <<>>, pos |-> 1, token |-> NilToken,
            err |-> ErrNil, supercedes |-> <<>>, supersedes |-> <<>>, Packs |-> <<>>,
            entries |-> <<>>, treePacks |-> <<>>, final |-> FALSE,
            pack |-> ZeroPack, nilResult |-> FALSE]

\* NewJsonStreamer(rd).LoadIndex() is called and reads the opening bracket
LoadIndex(impl, stream) ==
    /\ ix.pc = "idle"
    /\ ix' = [readBracket([NoIndex EXCEPT !.impl = impl, !.stream = stream])
                 EXCEPT !.pc = "members"]
    /\ UNCHANGED <<sem, beVars, lvars, at, sn, cf, pn, ck>>

\* one round of the outer loop: the key is read and the bracket after it;
\* another key than supersedes and packs ends LoadIndex with nil and j.err
LoadIndexMember ==
    /\ ix.pc = "members" /\ hasMore(ix)
    /\ LET j == readToken(ix)
       IN  ix' = IF j.token = String("supersedes")
                 THEN [readBracket(j) EXCEPT !.pc = "supersedes", !.supercedes = <<>>]
                 ELSE IF j.token = String("packs")
                 THEN [readBracket(j) EXCEPT !.pc = "packs"]
                 ELSE [j EXCEPT !.pc = "ret", !.nilResult = TRUE]
    /\ UNCHANGED <<sem, beVars, lvars, at, sn, cf, pn, ck>>

\* one round of the loop over the superseded IDs
LoadIndexSupersedesID ==
    /\ ix.pc = "supersedes" /\ hasMore(ix)
    /\ LET r == decodeNextValue(ix, "string")
       IN  ix' = [r.j EXCEPT !.supercedes = Append(@, r.value.text)]
    /\ UNCHANGED <<sem, beVars, lvars, at, sn, cf, pn, ck>>

\* the loop is through: the list is kept and the closing bracket read
LoadIndexSupersedesEnd ==
    /\ ix.pc = "supersedes" /\ ~hasMore(ix)
    /\ ix' = [readBracket(ix) EXCEPT !.pc = "members", !.supersedes = ix.supercedes]
    /\ UNCHANGED <<sem, beVars, lvars, at, sn, cf, pn, ck>>

\* one round of the loop over the packs begins: var pack packJSON is decoded
LoadIndexDecodePack ==
    /\ ix.pc = "packs" /\ hasMore(ix)
    /\ LET r == decodeNextValue(ix, "pack")
       IN  ix' = [r.j EXCEPT !.pc = "pack", !.pack = r.value.pack]
    /\ UNCHANGED <<sem, beVars, lvars, at, sn, cf, pn, ck>>

\* ... and ends: index_stream.go appends &pack to j.idxJson.Packs, which
\* keeps the record; the other LoadIndex stores the blobs of the pack in the
\* index, appends its ID to treePacks when it has tree blobs and no data
\* blobs, and lets go of the record
LoadIndexCommitPack ==
    /\ ix.pc = "pack"
    /\ ix' = IF ix.impl = "jsonIndex"
             THEN [ix EXCEPT !.pc = "packs", !.Packs = Append(@, ix.pack),
                             !.pack = ZeroPack]
             ELSE [ix EXCEPT !.pc = "packs", !.pack = ZeroPack,
                             !.entries = StoreBlobs(@, ix.pack),
                             !.treePacks =
                                 IF ~HasBlob(ix.pack, DataBlob) /\ HasBlob(ix.pack, TreeBlob)
                                 THEN Append(@, ix.pack.ID) ELSE @]
    /\ UNCHANGED <<sem, beVars, lvars, at, sn, cf, pn, ck>>

\* the loop over the packs is through: the closing bracket is read
LoadIndexPacksEnd ==
    /\ ix.pc = "packs" /\ ~hasMore(ix)
    /\ ix' = [readBracket(ix) EXCEPT !.pc = "members"]
    /\ UNCHANGED <<sem, beVars, lvars, at, sn, cf, pn, ck>>

\* the outer loop is through: the closing bracket is read, the Index is
\* marked final, and the index is returned with j.err
LoadIndexReturn ==
    /\ ix.pc = "members" /\ ~hasMore(ix)
    /\ ix' = [readBracket(ix) EXCEPT !.pc = "ret", !.final = (ix.impl = "Index")]
    /\ UNCHANGED <<sem, beVars, lvars, at, sn, cf, pn, ck>>

\* the caller is done with the result
LoadIndexForget ==
    /\ ix.pc = "ret"
    /\ ix' = NoIndex
    /\ UNCHANGED <<sem, beVars, lvars, at, sn, cf, pn, ck>>

\* ------------------------------------------------------------ ParseConfig
\* A string is the sequence of its characters.
Scheme == <<"o", "n", "e", "d", "r", "i", "v", "e">>
Colon == ":"

\* time.Minute, in seconds
Minute == 60

ErrInvalidURL == 0 - 40
ErrUnexpectedSchema == 0 - 41
ErrPrefixEmpty == 0 - 42

\* the index of the first sep in s from position i on, 0 when there is none
RECURSIVE Index(_, _, _)
Index(s, sep, i) ==
    IF i > Len(s) THEN 0
    ELSE IF s[i] = sep THEN i
    ELSE Index(s, sep, i + 1)

\* the index of the last sep in s, 0 when there is none
RECURSIVE LastIndex(_, _, _)
LastIndex(s, sep, i) ==
    IF i < 1 THEN 0
    ELSE IF s[i] = sep THEN i
    ELSE LastIndex(s, sep, i - 1)

\* a split at the last separator
SplitN2AtLast(s, sep) ==
    LET i == LastIndex(s, sep, Len(s))
    IN  IF i = 0 THEN <<s>>
        ELSE <<SubSeq(s, 1, i - 1), SubSeq(s, i + 1, Len(s))>>

\* strings.SplitN(s, sep, 2): s unsplit when sep is not in it, else what is
\* before the first sep and what is after it
SplitN2(s, sep) ==
    LET i == Index(s, sep, 1)
    IN  IF i = 0 THEN <<s>>
        ELSE <<SubSeq(s, 1, i - 1), SubSeq(s, i + 1, Len(s))>>

\* NewConfig: the defaults
NewConfig ==
    [SecretsFilePath |-> <<>>, Prefix |-> <<>>, Connections |-> 5, Timeout |-> 5 * Minute]

\* the nil interface{} ParseConfig returns with an error
NilConfig == [SecretsFilePath |-> <<>>, Prefix |-> <<>>, Connections |-> 0, Timeout |-> 0]

\* ParseConfig(s): the config and the error
ParseConfigOf(s) ==
    LET data == SplitN2(s, Colon)
    IN  IF Len(data) # 2 THEN [cfg |-> NilConfig, err |-> ErrInvalidURL]
        ELSE IF data[1] # Scheme THEN [cfg |-> NilConfig, err |-> ErrUnexpectedSchema]
        ELSE IF Len(data[2]) = 0 THEN [cfg |-> NilConfig, err |-> ErrPrefixEmpty]
        ELSE [cfg |-> [NewConfig EXCEPT !.Prefix = data[2]], err |-> ErrNil]

NoParse == [pc |-> "idle", s |-> <<>>, cfg |-> NilConfig, err |-> ErrNil]

\* ParseConfig is called with s and returns
ParseConfig(s) ==
    /\ cf.pc = "idle"
    /\ cf' = [pc |-> "ret", s |-> s, cfg |-> ParseConfigOf(s).cfg, err |-> ParseConfigOf(s).err]
    /\ UNCHANGED <<sem, beVars, lvars, at, sn, ix, pn, ck>>

\* the caller has the result
ParseConfigForget ==
    /\ cf.pc = "ret"
    /\ cf' = NoParse
    /\ UNCHANGED <<sem, beVars, lvars, at, sn, ix, pn, ck>>

\* -------------------------------------------------------------- pathNames
\* A path is the sequence of its characters.
Slash == "/"

\* strings.Split(s, sep): the pieces of s between the separators, one more
\* than there are separators (the empty string gives one empty piece)
RECURSIVE Split(_, _)
Split(s, sep) ==
    LET i == Index(s, sep, 1)
    IN  IF i = 0 THEN <<s>>
        ELSE <<SubSeq(s, 1, i - 1)>> \o Split(SubSeq(s, i + 1, Len(s)), sep)

\* the first loop of pathNames: the index of the first segment that is not
\* empty, len(segments) + 1 when there is none
RECURSIVE skipLeading(_, _)
skipLeading(segments, segmentIdx) ==
    IF segmentIdx <= Len(segments) /\ segments[segmentIdx] = <<>>
    THEN skipLeading(segments, segmentIdx + 1)
    ELSE segmentIdx

\* a second loop that takes the empty segments too
RECURSIVE appendNamesEmptyToo(_, _, _, _)
appendNamesEmptyToo(segments, segmentIdx, parentPath, names) ==
    IF segmentIdx > Len(segments) THEN names
    ELSE LET next == parentPath \o <<Slash>> \o segments[segmentIdx]
         IN  appendNamesEmptyToo(segments, segmentIdx + 1, next, Append(names, next))

\* the second loop: every further segment that is not empty is joined to
\* parentPath with a separator and the result is the next name
RECURSIVE appendNames(_, _, _, _)
appendNames(segments, segmentIdx, parentPath, names) ==
    IF segmentIdx > Len(segments) THEN names
    ELSE IF segments[segmentIdx] = <<>>
    THEN appendNames(segments, segmentIdx + 1, parentPath, names)
    ELSE LET next == parentPath \o <<Slash>> \o segments[segmentIdx]
         IN  appendNames(segments, segmentIdx + 1, next, Append(names, next))

\* pathNames on the string: Split, the leading empty segments skipped, no
\* names when nothing is left, else the first segment and the loop
pathNamesOf(path) ==
    LET segments == Split(path, Slash)
        segmentIdx == skipLeading(segments, 1)
    IN  IF segmentIdx > Len(segments) THEN <<>>
        ELSE appendNames(segments, segmentIdx + 1, segments[segmentIdx],
                         <<segments[segmentIdx]>>)

NoPathNames == [pc |-> "idle", path |-> <<>>, names |-> <<>>]

\* pathNames(path) is called and returns
pathNamesCall(path) ==
    /\ pn.pc = "idle"
    /\ pn' = [pc |-> "ret", path |-> path, names |-> pathNamesOf(path)]
    /\ UNCHANGED <<sem, beVars, lvars, at, sn, ix, cf, ck>>

\* the caller has the names
pathNamesForget ==
    /\ pn.pc = "ret"
    /\ pn' = NoPathNames
    /\ UNCHANGED <<sem, beVars, lvars, at, sn, ix, cf, ck>>

\* ------------------------------------------------------------------ check
\* The check command (cmd_check.go): checkFlags, the PreRunE of the command,
\* and the part of runCheck that reads the data of the packs.
\* A []uint: nil as long as the flag was not given.
NilSlice == [nil |-> TRUE, elems |-> <<>>]

Slice(elems) == [nil |-> FALSE, elems |-> elems]

ErrFlagsTogether == 0 - 50
ErrFlagsTwoValues == 0 - 51
ErrFlagsPositive == 0 - 52

\* uint arithmetic wraps around.  Go's uint is 64 bits wide; the integers of
\* the model are 32 bits wide, so that the wrap is at 2^30 here: 0 - 1 is the
\* largest uint, far above every number of groups.
UintModulus == 2^30

uintSub(a, b) == (a - b) % UintModulus

\* checkFlags without the test for zero values
checkFlagsZeroAccepted(opts) ==
    IF opts.ReadData /\ ~opts.ReadDataSubset.nil THEN ErrFlagsTogether
    ELSE IF ~opts.ReadDataSubset.nil /\ Len(opts.ReadDataSubset.elems) # 2
    THEN ErrFlagsTwoValues
    ELSE IF /\ ~opts.ReadDataSubset.nil
            /\ opts.ReadDataSubset.elems[1] > opts.ReadDataSubset.elems[2]
    THEN ErrFlagsPositive
    ELSE ErrNil

checkFlags(opts) ==
    IF opts.ReadData /\ ~opts.ReadDataSubset.nil THEN ErrFlagsTogether
    ELSE IF ~opts.ReadDataSubset.nil /\ Len(opts.ReadDataSubset.elems) # 2
    THEN ErrFlagsTwoValues
    ELSE IF /\ ~opts.ReadDataSubset.nil
            /\ \/ opts.ReadDataSubset.elems[1] = 0
               \/ opts.ReadDataSubset.elems[2] = 0
               \/ opts.ReadDataSubset.elems[1] > opts.ReadDataSubset.elems[2]
    THEN ErrFlagsPositive
    ELSE ErrNil

\* doReadData(bucket, totalBuckets) over the packs of the checker.  A pack ID
\* is its first byte and the rest of it.  The remainder is computed once per
\* pack, so that a zero totalBuckets panics as soon as there is a pack;
\* bucket - 1 wraps when bucket is zero.
doReadData(bucket, totalBuckets, packs) ==
    IF totalBuckets = 0 /\ packs # {}
    THEN [panic |-> TRUE, wrapped |-> bucket = 0, packs |-> {}, all |-> FALSE]
    ELSE LET selected ==
                 {pack \in packs : (pack[1] % totalBuckets) = uintSub(bucket, 1)}
         IN  [panic |-> FALSE, wrapped |-> bucket = 0, packs |-> selected,
              all |-> ~(Cardinality(selected) < Cardinality(packs))]

NotRead == [panic |-> FALSE, wrapped |-> FALSE, packs |-> {}, all |-> FALSE]

NoCheck == [pc |-> "idle", opts |-> [ReadData |-> FALSE, ReadDataSubset |-> NilSlice],
            packs |-> {}, err |-> ErrNil, called |-> FALSE, read |-> NotRead]

\* The command lines and repositories of the model: every combination of
\* --read-data and --read-data-subset (not given, or up to three values from
\* 0 to MaxBuckets), and every repository whose packs are among PackIDs, two
\* packs for each first byte.
PackIDs == (0..MaxFirstByte) \X (0..1)

UintSlices == {NilSlice} \cup
    {Slice(elems) : elems \in UNION {[1..n -> 0..MaxBuckets] : n \in 0..3}}

CheckOptionSet == [ReadData : BOOLEAN, ReadDataSubset : UintSlices]

\* PreRunE of the command: checkFlags on the options of the command line; the
\* command runs only when it returns nil.  packs are the packs of the
\* repository the command is run on.
checkPreRun ==
    /\ ck.pc = "idle"
    /\ \E opts \in CheckOptionSet, packs \in SUBSET PackIDs :
           LET err == checkFlags(opts)
           IN  ck' = [NoCheck EXCEPT !.pc = IF err = ErrNil THEN "run" ELSE "ret",
                                     !.opts = opts, !.packs = packs, !.err = err]
    /\ UNCHANGED <<sem, beVars, lvars, at, sn, ix, cf, pn>>

\* runCheck, from the switch over the options on: all the data with
\* --read-data, one group with two values of --read-data-subset, no data
\* otherwise.
runCheck ==
    /\ ck.pc = "run"
    /\ LET subset == ck.opts.ReadDataSubset.elems
       IN  ck' = [ck EXCEPT
                    !.pc = "ret",
                    !.called = ck.opts.ReadData \/ Len(subset) = 2,
                    !.read = IF ck.opts.ReadData
                             THEN doReadData(1, 1, ck.packs)
                             ELSE IF Len(subset) = 2
                             THEN doReadData(subset[1], subset[2], ck.packs)
                             ELSE NotRead]
    /\ UNCHANGED <<sem, beVars, lvars, at, sn, ix, cf, pn>>

\* the command has ended
checkForget ==
    /\ ck.pc = "ret"
    /\ ck' = NoCheck
    /\ UNCHANGED <<sem, beVars, lvars, at, sn, ix, cf, pn>>

\* ------------------------------------------------------ the specification
\* The backend as open left it: after Create on an empty drive (the prefix
\* folder made through createFolders), after Open on a repository that is
\* there, or after Open on a prefix that is not.
InitCreated ==
    /\ folders = [d \in AllDirs |-> IF d = Prefix THEN "done" ELSE "none"]
    /\ creates = [d \in AllDirs |-> IF d = Prefix THEN 1 ELSE 0]
    /\ srvFolders = {Prefix}
    /\ srvFiles = [fp \in FilePaths |-> NoFile]

InitOpened ==
    /\ folders = [d \in AllDirs |-> "none"]
    /\ creates = [d \in AllDirs |-> 0]
    /\ \/ /\ srvFolders = AllDirs
          /\ srvFiles = [fp \in FilePaths |-> 1]
       \/ /\ srvFolders = {}
          /\ srvFiles = [fp \in FilePaths |-> NoFile]

InitInstance ==
    /\ opened = TRUE
    /\ lst = NoList
    /\ l = [w \in Listers |-> LIdle]
    /\ cons = NoConsumer
    /\ sem = NewSemaphore
    /\ holds = [p \in Procs |-> 0]
    /\ srvRecv = [p \in Procs |-> 0 - 1]
    /\ g = [p \in Procs |-> Idle]
    /\ at = NoTree
    /\ sn = NoSnapshot
    /\ ix = NoIndex
    /\ cf = NoParse
    /\ pn = NoPathNames
    /\ ck = NoCheck
    /\ InitCreated \/ InitOpened

\* ... opened with the largest cfg.Connections
InitBackend == InitInstance /\ connections = Connections

Init == InitBackend /\ faulty = FALSE

\* <<length, offset>> as passed to Load
LoadArgs == {<<0, 0>>, <<0 - 1, 0>>, <<0, 0 - 1>>}

\* Every public method, called concurrently for one data file, against a
\* remote that answers every request.
Next ==
    \E p \in Procs :
        \/ Test(p, DataA)
        \/ TestDone(p)
        \/ Stat(p, DataA)
        \/ StatDone(p)
        \/ Remove(p, DataA)
        \/ RemoveDone(p)
        \/ Delete(p)
        \/ DeleteDone(p)
        \/ Return(p)
        \/ Save(p, DataA, 1)
        \/ ifCreateFolderKnown(p)
        \/ ifCreateFolder(p)
        \/ createFolderDone(p)
        \/ uploadSession(p)
        \/ uploadFragment(p)
        \/ \E a \in LoadArgs : LoadInvalid(p, DataA, a[1], a[2])
        \/ \E a \in LoadArgs : Load(p, DataA, a[1], a[2])
        \/ LoadFailed(p)
        \/ LoadDone(p)
        \/ LoadReturn(p)
        \/ ReleaseTokenOnClose(p)

Spec == Init /\ [][Next]_vars

\* Concurrent Saves against a remote that answers every request: folder
\* creation and overwrite protection.
SaveInputs == {<<ConfigH, 1>>, <<ConfigH, 2>>, <<DataA, 1>>}

NextSave ==
    \E p \in Procs :
        \/ \E in \in SaveInputs : Save(p, in[1], in[2])
        \/ ifCreateFolderKnown(p)
        \/ ifCreateFolder(p)
        \/ createFolderDone(p)
        \/ uploadSession(p)
        \/ uploadFragment(p)
        \/ Return(p)

InitSave == InitBackend /\ faulty = FALSE

SpecSave == InitSave /\ [][NextSave]_vars

\* Concurrent Saves of one data file against a remote that may fail any
\* request: createFolders.
FolderInputs == {<<DataA, 1>>}

NextFolders ==
    \E p \in Procs :
        \/ \E in \in FolderInputs : Save(p, in[1], in[2])
        \/ ifCreateFolderKnown(p)
        \/ ifCreateFolder(p)
        \/ createFolderDone(p)
        \/ uploadSession(p)
        \/ uploadFragment(p)
        \/ Return(p)

InitFolders == InitBackend /\ faulty = TRUE

SpecFolders == InitFolders /\ [][NextFolders]_vars

\* One caller uploading readers of every length around the fragment
\* boundaries (and of length 0, and of unknown length), then asking for the
\* size and removing the item, against a remote that may fail any request.
UploadSizes ==
    {0 - 1} \cup {L \in {k * uploadFragmentSize + d : k \in 0..MaxFragments, d \in {0 - 1, 0, 1}} :
                    L >= 0}

NextUpload ==
    \/ \E len \in UploadSizes : Save(1, DataA, len)
    \/ ifCreateFolderKnown(1)
    \/ ifCreateFolder(1)
    \/ createFolderDone(1)
    \/ uploadSession(1)
    \/ uploadFragment(1)
    \/ Stat(1, DataA)
    \/ StatDone(1)
    \/ Remove(1, DataA)
    \/ RemoveDone(1)
    \/ Return(1)

InitUpload == InitBackend /\ faulty = TRUE

SpecUpload == InitUpload /\ [][NextUpload]_vars

\* One caller opening and creating the backend, saving and removing the
\* config and deleting the repository in between, against a remote that may
\* fail any request.
NextOpen ==
    \/ open(1, FALSE)
    \/ open(1, TRUE)
    \/ openProbeDone(1)
    \/ openReturn(1)
    \/ ifCreateFolderKnown(1)
    \/ ifCreateFolder(1)
    \/ createFolderDone(1)
    \/ Save(1, ConfigH, 1)
    \/ uploadSession(1)
    \/ uploadFragment(1)
    \/ Remove(1, ConfigH)
    \/ RemoveDone(1)
    \/ Delete(1)
    \/ DeleteDone(1)
    \/ Return(1)

InitOpen == InitBackend /\ faulty = TRUE

SpecOpen == InitOpen /\ [][NextOpen]_vars

\* List, its receiver taking a token for every name, and a second caller of
\* the other public methods.
ListTypes == {DataFile, SnapshotFile}

NextList ==
    \/ \E t \in ListTypes : List(t)
    \/ ctxDone
    \/ \E w \in Listers :
        \/ listChildrenGet(w)
        \/ listChildrenPage(w)
        \/ resultForwarder(w)
        \/ resultForwarderDone(w)
    \/ \E w \in Workers :
        \/ pushSubdir(w)
        \/ workerDone(w)
    \/ closeSubch
    \/ closeCh
    \/ consumerGetToken
    \/ consumerReleaseToken
    \/ consumerEnd
    \/ ListForget
    \/ Test(2, DataA)
    \/ TestDone(2)
    \/ Stat(2, DataA)
    \/ StatDone(2)
    \/ Remove(2, DataA)
    \/ RemoveDone(2)
    \/ Delete(2)
    \/ DeleteDone(2)
    \/ Save(2, DataA, 1)
    \/ ifCreateFolderKnown(2)
    \/ ifCreateFolder(2)
    \/ createFolderDone(2)
    \/ uploadSession(2)
    \/ uploadFragment(2)
    \/ \E a \in LoadArgs : LoadInvalid(2, DataA, a[1], a[2])
    \/ \E a \in LoadArgs : Load(2, DataA, a[1], a[2])
    \/ LoadFailed(2)
    \/ LoadDone(2)
    \/ LoadReturn(2)
    \/ ReleaseTokenOnClose(2)
    \/ Return(2)

InitList == InitBackend /\ faulty = FALSE

SpecList == InitList /\ [][NextList]_vars

\* A List on an instance opened with any cfg.Connections, its receiver
\* draining the channel, nothing else going on and the context never done
\* before List is through.
ListerStep ==
    \/ \E w \in Listers :
        \/ listChildrenGet(w)
        \/ listChildrenPage(w)
        \/ resultForwarder(w)
    \/ \E w \in Workers :
        \/ pushSubdir(w)
        \/ workerDone(w)
    \/ closeSubch
    \/ closeCh

NextListing ==
    \/ \E t \in ListTypes : List(t)
    \/ ListerStep
    \/ consumerGetToken
    \/ consumerReleaseToken
    \/ consumerEnd
    \/ ListForget

InitListing == InitInstance /\ connections \in 1..Connections /\ faulty = FALSE

\* every goroutine that can run does: the Go scheduler
FairListing == InitListing /\ [][NextListing]_vars /\ WF_vars(NextListing)

\* The same with a context that may be done at any time and a receiver that
\* may stop receiving. The goroutines of List run when they can and the
\* receiver's request is answered; the context need not be done, the
\* receiver need not receive, List need not be called again.
NextCancel ==
    \/ NextListing
    \/ ctxDone
    \/ \E w \in Listers : resultForwarderDone(w)
    \/ consumerStop

InitCancel == InitListing

FairCancel ==
    /\ InitCancel /\ [][NextCancel]_vars
    /\ WF_vars(ListerStep \/ \E w \in Listers : resultForwarderDone(w))
    /\ WF_vars(consumerReleaseToken)

\* The targets NewArchiveTree is called with: files and directories below
\* foo in the working directory, in its parent and at the root, a directory
\* whose name is foo with a suffix, uncleaned spellings, and dot-only targets.
Targets ==
    {<<"foo">>, <<"foo", "user1">>, <<"foo", "user2">>, <<".", "foo", "user1">>,
     <<"..", "foo">>, <<"..", "foo", "other">>, <<"..", "foo-1">>,
     <<"..", "foo-1", "other">>, <<"foo-1">>, <<Separator, "foo">>,
     <<"foo", "..", "..", "foo">>, <<".">>}

TargetLists == UNION {[1..n -> Targets] : n \in 1..MaxTargets}

\* NewArchiveTree called again and again, each time with some list of targets
NextTree ==
    \/ \E targets \in TargetLists : NewArchiveTree(targets)
    \/ NewArchiveTreeRange
    \/ NewArchiveTreeReturn
    \/ NewArchiveTreeForget

InitTree == InitBackend /\ InitCreated /\ faulty = FALSE

SpecTree == InitTree /\ [][NextTree]_vars

\* the target lists Snapshot is called with
SnapshotTargets ==
    {<<Dot>>, <<<<"work">>, <<"other">>>>, <<<<"work", "subdir">>>>,
     <<<<"work">>, <<".", "work", "subdir">>>>, <<<<"work", "foo">>, <<"gone">>>>}

\* Snapshot called again and again, on archivers with every Select
NextSnapshot ==
    \/ \E targets \in SnapshotTargets, repoSet \in BOOLEAN,
          rejected \in SUBSET Selectable \cup {NilSelect} :
            Snapshot(targets, repoSet, rejected)
    \/ SnapshotResolve
    \/ SnapshotNewArchiveTree
    \/ saveArchiveTreeNode
    \/ saveTreeEntry
    \/ SaveFileChunk
    \/ SaveFileReturn
    \/ SaveDirReturn
    \/ saveArchiveTreeSubtree
    \/ saveArchiveTreeReturn
    \/ SnapshotSaveTree
    \/ SnapshotFlush
    \/ SnapshotSaveIndex
    \/ SnapshotNewSnapshot
    \/ SnapshotSaveJSONUnpacked
    \/ SnapshotForget

InitSnapshot == InitBackend /\ InitCreated /\ faulty = FALSE

SpecSnapshot == InitSnapshot /\ [][NextSnapshot]_vars

\* The index documents: the packs alone, with a supersedes list before or
\* after them, or under a key that is not known; and the streams read from
\* them, whole or cut off anywhere.
PackLists == UNION {[1..n -> PackRecords] : n \in 0..MaxPacks}

Documents ==
    UNION {{<<Member("packs", <<>>, packs)>>,
            <<Member("supersedes", <<"i1">>, <<>>), Member("packs", <<>>, packs)>>,
            <<Member("packs", <<>>, packs), Member("supersedes", <<"i1">>, <<>>)>>,
            <<Member("other", <<>>, packs)>>} : packs \in PackLists}

Streams ==
    UNION {{SubSeq(Tokens(doc), 1, n) : n \in 0..Len(Tokens(doc))} : doc \in Documents}

\* LoadIndex called again and again, in both versions, on every stream
NextIndex ==
    \/ \E impl \in {"jsonIndex", "Index"}, stream \in Streams : LoadIndex(impl, stream)
    \/ LoadIndexMember
    \/ LoadIndexSupersedesID
    \/ LoadIndexSupersedesEnd
    \/ LoadIndexDecodePack
    \/ LoadIndexCommitPack
    \/ LoadIndexPacksEnd
    \/ LoadIndexReturn
    \/ LoadIndexForget

InitIndex == InitBackend /\ InitCreated /\ faulty = FALSE

SpecIndex == InitIndex /\ [][NextIndex]_vars

\* One caller of every public method and a List with its receiver, against a
\* remote that may fail any request. Load is called with every combination
\* of a zero, a positive and a negative length and offset.
LoadRanges == {<<len, off>> : len \in {0 - 1, 0, 1, 2}, off \in {0 - 1, 0, 1}}

NextErrors ==
    \/ \E t \in ListTypes : List(t)
    \/ ListerStep
    \/ consumerEnd
    \/ ListForget
    \/ Test(1, DataA)
    \/ TestDone(1)
    \/ Stat(1, DataA)
    \/ StatDone(1)
    \/ Remove(1, DataA)
    \/ RemoveDone(1)
    \/ Delete(1)
    \/ DeleteDone(1)
    \/ \E len \in {0 - 1, 1} : Save(1, DataA, len)
    \/ ifCreateFolderKnown(1)
    \/ ifCreateFolder(1)
    \/ createFolderDone(1)
    \/ uploadSession(1)
    \/ uploadFragment(1)
    \/ \E a \in LoadRanges : LoadInvalid(1, DataA, a[1], a[2])
    \/ \E a \in LoadRanges : Load(1, DataA, a[1], a[2])
    \/ LoadFailed(1)
    \/ LoadDone(1)
    \/ LoadReturn(1)
    \/ ReleaseTokenOnClose(1)
    \/ Return(1)

InitErrors == InitBackend /\ faulty = TRUE

SpecErrors == InitErrors /\ [][NextErrors]_vars

\* ParseConfig on repository strings: a scheme that is onedrive, or nearly,
\* or another, or none, followed by every string of at most MaxTail
\* characters, colons among them.
Heads ==
    {Scheme, SubSeq(Scheme, 1, Len(Scheme) - 1), Scheme \o <<"e">>,
     <<"O">> \o Tail(Scheme), <<>>, <<"s", "3">>}

TailChars == {Colon, "a", "/"}

ConfigTails == UNION {[1..n -> TailChars] : n \in 0..MaxTail}

ConfigStrings == {h \o t : h \in Heads, t \in ConfigTails}

NextConfig ==
    \/ \E s \in ConfigStrings : ParseConfig(s)
    \/ ParseConfigForget

InitConfig == InitBackend /\ InitCreated /\ faulty = FALSE

SpecConfig == InitConfig /\ [][NextConfig]_vars

\* NewArchiveTree and Snapshot, one call at a time, on targets that name no
\* file or directory but the working directory, a directory above it or the
\* root, alone and next to targets that do.
DotTargets ==
    {Dot, <<"..">>, <<"..", "..">>, <<"work", "..">>, <<Separator>>, <<"work">>}

DotTargetLists == UNION {[1..n -> DotTargets] : n \in 1..MaxTargets}

DotSnapshotTargets ==
    {<<Dot>>, <<<<"..">>>>, <<<<"..", "..">>>>, <<<<"work", "..">>>>, <<<<Separator>>>>,
     <<Dot, <<"..">>>>, <<<<"work">>, Dot>>, <<<<"work", "subdir">>, <<"work", "subdir", "..">>>>,
     <<<<"work", "subdir">>, <<"..", "..">>>>}

NextDots ==
    \/ \E targets \in DotTargetLists : sn.pc = "idle" /\ NewArchiveTree(targets)
    \/ NewArchiveTreeRange
    \/ NewArchiveTreeReturn
    \/ NewArchiveTreeForget
    \/ \E targets \in DotSnapshotTargets : at.pc = "idle" /\ Snapshot(targets, TRUE, {})
    \/ SnapshotResolve
    \/ SnapshotNewArchiveTree
    \/ saveArchiveTreeNode
    \/ saveTreeEntry
    \/ SaveFileChunk
    \/ SaveFileReturn
    \/ SaveDirReturn
    \/ saveArchiveTreeSubtree
    \/ saveArchiveTreeReturn
    \/ SnapshotSaveTree
    \/ SnapshotFlush
    \/ SnapshotSaveIndex
    \/ SnapshotNewSnapshot
    \/ SnapshotSaveJSONUnpacked
    \/ SnapshotForget

InitDots == InitBackend /\ InitCreated /\ faulty = FALSE

SpecDots == InitDots /\ [][NextDots]_vars

\* SaveFile called by itself on every file, on a directory and on a name that
\* is not there, and by Snapshot on the files of its targets, with a context
\* that cannot be cancelled, one that can, and one that is.
SaveFileNames == DOMAIN FileItems \cup {Cwd \o <<"work">>, Cwd \o <<"gone">>}

Contexts == {"background", "live", "cancelled"}

SaveFileTargets == {<<<<"work">>>>, <<<<"work", "subdir", "other">>, <<"other">>>>}

NextSaveFile ==
    \/ \E filename \in SaveFileNames, ctx \in Contexts : SaveFile(filename, ctx)
    \/ \E targets \in SaveFileTargets, ctx \in Contexts : SnapshotContext(targets, ctx)
    \/ ctxCancel
    \/ SaveFileCaller
    \/ SnapshotResolve
    \/ SnapshotNewArchiveTree
    \/ saveArchiveTreeNode
    \/ saveTreeEntry
    \/ SaveFileChunk
    \/ SaveFileReturn
    \/ SaveDirReturn
    \/ saveArchiveTreeSubtree
    \/ saveArchiveTreeReturn
    \/ SnapshotSaveTree
    \/ SnapshotFlush
    \/ SnapshotSaveIndex
    \/ SnapshotNewSnapshot
    \/ SnapshotSaveJSONUnpacked
    \/ SnapshotForget

InitSaveFile == InitBackend /\ InitCreated /\ faulty = FALSE

SpecSaveFile == InitSaveFile /\ [][NextSaveFile]_vars

\* NewArchiveTree on lists of targets in every order: a directory, targets
\* nested below it one and two levels down, and targets of other roots.
OrderTargets ==
    {<<"foo">>, <<"foo", "work">>, <<"foo", "work", "user2">>, <<"foo", "user1">>,
     <<".", "foo", "work">>, Dot, <<"..", "foo">>, <<Separator, "foo">>}

OrderTargetLists == UNION {[1..n -> OrderTargets] : n \in 1..MaxTargets}

NextOrders ==
    \/ \E targets \in OrderTargetLists : NewArchiveTree(targets)
    \/ NewArchiveTreeRange
    \/ NewArchiveTreeReturn
    \/ NewArchiveTreeForget

InitOrders == InitBackend /\ InitCreated /\ faulty = FALSE

SpecOrders == InitOrders /\ [][NextOrders]_vars

\* Every method and List, with a context that may be done at any time and a
\* receiver that takes the names (the methods it calls for them are those of
\* caller 2) and may stop receiving, against a remote that may fail any
\* request or not answer (the timeout of the method's context); the
\* repository has its folders and files when the instance is opened.
NextTokens ==
    \/ \E t \in ListTypes : List(t)
    \/ ctxDone
    \/ \E w \in Listers :
        \/ listChildrenGet(w)
        \/ listChildrenPage(w)
        \/ resultForwarder(w)
        \/ resultForwarderDone(w)
    \/ \E w \in Workers :
        \/ pushSubdir(w)
        \/ workerDone(w)
    \/ closeSubch
    \/ closeCh
    \/ consumerEnd
    \/ consumerStop
    \/ ListForget
    \/ Test(2, DataA)
    \/ TestDone(2)
    \/ Stat(2, DataA)
    \/ StatDone(2)
    \/ Remove(2, DataA)
    \/ RemoveDone(2)
    \/ Delete(2)
    \/ DeleteDone(2)
    \/ Save(2, DataA, 1)
    \/ ifCreateFolderKnown(2)
    \/ ifCreateFolder(2)
    \/ createFolderDone(2)
    \/ uploadSession(2)
    \/ uploadFragment(2)
    \/ \E a \in LoadArgs : LoadInvalid(2, DataA, a[1], a[2])
    \/ \E a \in LoadArgs : Load(2, DataA, a[1], a[2])
    \/ LoadFailed(2)
    \/ LoadDone(2)
    \/ LoadReturn(2)
    \/ ReleaseTokenOnClose(2)
    \/ Return(2)

InitTokens == InitBackend /\ faulty = TRUE /\ srvFolders = AllDirs

SpecTokens == InitTokens /\ [][NextTokens]_vars

\* pathNames called on every path of up to MaxPath characters, separators
\* and the letters of two segment names.
PathChars == {Slash, "a", "b"}

Paths == UNION {[1..n -> PathChars] : n \in 0..MaxPath}

NextPathNames ==
    \/ \E path \in Paths : pathNamesCall(path)
    \/ pathNamesForget

InitPathNames == InitBackend /\ InitCreated /\ faulty = FALSE

SpecPathNames == InitPathNames /\ [][NextPathNames]_vars

\* check run on every command line and repository of the model
NextCheck ==
    \/ checkPreRun
    \/ runCheck
    \/ checkForget

InitCheck == InitBackend /\ InitCreated /\ faulty = FALSE

SpecCheck == InitCheck /\ [][NextCheck]_vars

\* Callers of onedriveCreateFolder for a folder and its subfolders, each by
\* itself and concurrently with the others, against a remote that may fail
\* any request and from which the folders may be deleted at any time.
NextCreateFolder ==
    \E p \in Procs :
        \/ \E k \in 1..Len(TestFolders) : CreateFolder(p, k)
        \/ CreateFolderDone(p)
        \/ CreateFolderReturn(p)
        \/ CleanupFolders(p)

InitCreateFolder == InitBackend /\ faulty = TRUE

SpecCreateFolder == InitCreateFolder /\ [][NextCreateFolder]_vars

\* ------------------------------------------------------------------ properties

\* p's step is the answer to its createUploadSession POST for handle type t,
\* sent while the item is there
PostOnExisting(p, t) ==
    /\ g[p].pc = "post"
    /\ g[p].h.Type = t
    /\ Exists(Filename(g[p].h))
    /\ g'[p] # g[p]

\* the step ends p's Save with httpError 412 and sends no PUT
Refused(p) ==
    /\ g'[p].pc = "ret"
    /\ g'[p].err = StatusPreconditionFailed
    /\ g'[p].sess = "Failed"
    /\ srvFiles' = srvFiles

\* C1: a Save of the config handle never succeeds when a config object is
\* already there: its session POST is answered 412, Save returns that error,
\* and the stored config stays as it was.
C1_ConfigSaveRefused ==
    [][/\ \A p \in Procs : PostOnExisting(p, ConfigFile) => Refused(p)
       /\ srvFiles[ConfigPath] # NoFile => srvFiles'[ConfigPath] = srvFiles[ConfigPath]]_vars

\* C8: a Save of a data handle whose object is already there is refused with
\* httpError 412 at the session POST: no fragment PUT follows and the object
\* stays as it was.
C8_DataSaveRefused ==
    [][\A p \in Procs : PostOnExisting(p, DataFile) => Refused(p)]_vars

C8_Witness ==
    \E p \in Procs :
        /\ g[p].pc = "ret" /\ g[p].op = "Save" /\ g[p].h = DataA
        /\ g[p].err = StatusPreconditionFailed
        /\ g[p].log[Len(g[p].log)].m = "POST"
        /\ srvFiles[Filename(DataA)] # NoFile

\* C4: for every folder path at most one create request is sent by the
\* backend instance, however many Saves under it run concurrently; a path
\* whose Once is done is not requested again.
C4_OneCreatePerFolder ==
    \A d \in AllDirs :
        /\ creates[d] <= 1
        /\ creates[d] = 1 <=> folders[d] # "none"

\* two Saves are past createFolders for the same shard folder, requested once
C4_Witness ==
    \E p, q \in Procs :
        /\ p # q
        /\ g[p].h = DataA /\ g[q].h = DataA
        /\ g[p].pc \in {"post", "put"} /\ g[q].pc \in {"post", "put"}
        /\ creates[Dirname(DataA)] = 1

\* the answer st to a folder create makes onedriveCreateFolder fail
FolderCreateFailed(st) ==
    st = ErrTransport \/ (~(st >= 200 /\ st <= 299) /\ st # 412)

MkdirIdx(p) == {i \in 1..Len(g[p].log) : g[p].log[i].m = "MKDIR"}
UploadIdx(p) == {i \in 1..Len(g[p].log) : g[p].log[i].m \in {"POST", "PUT"}}

\* C5: in every Save the folder creates are sent shallowest first and for
\* ancestors of the target only; the session POST is sent only after
\* createFolders has returned nil (every create answered without error, every
\* ancestor's Once done); a failed create ends Save with that error and
\* nothing is sent after it.
C5_FoldersBeforeUpload ==
    \A p \in Procs :
        LET lg == g[p].log
        IN  /\ \A i \in MkdirIdx(p) :
                /\ lg[i].path \in {pathNames(Dirname(g[p].h))[k] :
                                     k \in 1..Len(pathNames(Dirname(g[p].h)))}
                /\ \A j \in MkdirIdx(p) : i < j => Len(lg[i].path) < Len(lg[j].path)
                /\ FolderCreateFailed(lg[i].st) =>
                      /\ i = Len(lg)
                      /\ g[p].pc = "ret"
                      /\ g[p].err = lg[i].st
            /\ \A i \in UploadIdx(p) :
                /\ \A j \in MkdirIdx(p) : j < i /\ ~FolderCreateFailed(lg[j].st)
                /\ \A k \in 1..Len(pathNames(Dirname(g[p].h))) :
                      folders[pathNames(Dirname(g[p].h))[k]] = "done"
            /\ g[p].pc \in {"post", "put"} =>
                  \A k \in 1..Len(pathNames(Dirname(g[p].h))) :
                      folders[pathNames(Dirname(g[p].h))[k]] = "done"

\* a Save that made all three folders and then sent the session POST
C5_Witness ==
    \E p \in Procs :
        /\ Len(g[p].log) >= 4
        /\ \A i \in 1..3 : g[p].log[i].m = "MKDIR" /\ Len(g[p].log[i].path) = i
        /\ g[p].log[4].m = "POST"

PutIdx(p) == {i \in 1..Len(g[p].log) : g[p].log[i].m = "PUT"}

\* C6: for an upload of total length L > 0 the fragment PUTs go out in
\* increasing offset order, each of at most 9,830,400 bytes, each with
\* Content-Range first-last/L; the first starts at 0, each next one starts
\* where the one before ended, none reaches past L; when Save returns nil
\* the last one ended at L-1 and the item has size L, which is what Stat
\* then reports.
C6_FragmentsCoverUpload ==
    \A p \in Procs :
        LET lg == g[p].log
        IN  /\ \A i \in PutIdx(p) :
                /\ g[p].length > 0
                /\ lg[i].range.total = g[p].length
                /\ lg[i].range.first <= lg[i].range.last
                /\ lg[i].range.last - lg[i].range.first + 1 <= 9830400
                /\ lg[i].range.last <= g[p].length - 1
                /\ IF i - 1 \in PutIdx(p)
                   THEN lg[i].range.first = lg[i - 1].range.last + 1
                   ELSE lg[i].range.first = 0 /\ PutIdx(p) = i..Len(lg)
            /\ (g[p].op = "Save" /\ g[p].pc = "ret" /\ g[p].err = ErrNil /\ g[p].length > 0) =>
                /\ PutIdx(p) # {}
                /\ lg[Len(lg)].range.last = g[p].length - 1
                /\ srvFiles[Filename(g[p].h)] = g[p].length
            /\ (g[p].op = "Stat" /\ g[p].pc = "ret" /\ g[p].err = ErrNil) =>
                g[p].val = srvFiles[Filename(g[p].h)]

\* a Save of two fragments and one byte has returned nil
C6_Witness ==
    \E p \in Procs :
        /\ g[p].op = "Save" /\ g[p].pc = "ret" /\ g[p].err = ErrNil
        /\ g[p].length = 2 * 9830400 + 1
        /\ Cardinality(PutIdx(p)) = 3

\* the moves of an upload session; a Save that returns leaves its frame, and
\* with it the session, behind
SessionMoves ==
    {<<"Init", "SessionCreated">>, <<"Init", "Failed">>,
     <<"SessionCreated", "Fragment">>, <<"SessionCreated", "Completed">>,
     <<"SessionCreated", "Failed">>,
     <<"Fragment", "Fragment">>, <<"Fragment", "Completed">>, <<"Fragment", "Failed">>}

\* C7: an upload session moves only Init -> SessionCreated -> Fragment ...
\* -> Completed | Failed; a transport error or a non-2xx answer to the session
\* POST or to a fragment PUT puts it in Failed, Save then returns that error,
\* and nothing more is sent for it: no PUT, no retry.
C7_UploadSession ==
    [][\A p \in Procs :
        /\ (g'[p] # g[p] /\ g'[p] # Idle /\ g[p].op = "Save" /\ g[p].pc \in {"post", "put"}) =>
              <<g[p].sess, g'[p].sess>> \in SessionMoves
        /\ g'[p].sess # g[p].sess =>
              \/ g[p].op = "Save" /\ g[p].pc \in {"post", "put"}
              \/ g'[p] = Idle /\ g[p].pc = "ret" /\ g[p].sess # "Fragment"
        /\ (g'[p] # g[p] /\ g[p].pc \in {"post", "put"}) =>
              LET st == g'[p].log[Len(g'[p].log)].st
              IN  (st = ErrTransport \/ ~(st >= 200 /\ st <= 299)) =>
                    /\ g'[p].sess = "Failed"
                    /\ g'[p].pc = "ret"
                    /\ g'[p].err = st
        /\ g[p].sess = "Failed" => g'[p] \in {g[p], Idle}]_vars

\* a session that failed at its second fragment
C7_Witness ==
    \E p \in Procs :
        /\ g[p].sess = "Failed" /\ g[p].pc = "ret"
        /\ Cardinality(PutIdx(p)) = 2
        /\ g[p].err # ErrNil

\* the answer to open's config probe
ProbeStatus(p) == g[p].log[1].st

\* C9: Create against a prefix that holds a config fails with the fatal
\* 'config file already exists' and sends no folder create; Create against a
\* prefix without config returns the backend once its folder creates are
\* answered without error; Open returns the backend in both cases; Open and
\* Create return the probe's error when it is anything but 404.
C9_OpenAndCreate ==
    \A p \in Procs :
        (g[p].op \in {"Open", "Create"} /\ g[p].log # <<>>) =>
            /\ g[p].log[1].m = "GET" /\ g[p].log[1].path = ConfigPath
            /\ (ProbeStatus(p) = ErrTransport
                   \/ (~(ProbeStatus(p) >= 200 /\ ProbeStatus(p) <= 299) /\ ProbeStatus(p) # 404)) =>
                  g[p].pc = "ret" /\ g[p].err = ProbeStatus(p) /\ Len(g[p].log) = 1
            /\ (g[p].op = "Create" /\ ProbeStatus(p) = 200) =>
                  /\ g[p].pc = "ret" /\ g[p].err = ErrConfigExists /\ Len(g[p].log) = 1
                  /\ Exists(ConfigPath)
            /\ (g[p].op = "Create" /\ ProbeStatus(p) = 404) =>
                  /\ ~Exists(ConfigPath)
                  /\ g[p].pc = "ret" =>
                        /\ Len(g[p].log) = 1 + Len(pathNames(Prefix)) \/ g[p].err # ErrNil
                        /\ g[p].err = ErrNil <=>
                              \A i \in MkdirIdx(p) : ~FolderCreateFailed(g[p].log[i].st)
                        /\ g[p].err = ErrNil => Prefix \in srvFolders
            /\ (g[p].op = "Open" /\ ProbeStatus(p) \in {200, 404}) =>
                  g[p].pc = "ret" /\ g[p].err = ErrNil /\ Len(g[p].log) = 1

\* a Create that found the config and failed
C9_Witness ==
    \E p \in Procs :
        /\ g[p].op = "Create" /\ g[p].pc = "ret"
        /\ g[p].err = ErrConfigExists
        /\ Exists(ConfigPath)

\* C10: the token Load takes is held while the request is out and, after a
\* Load that returned a reader, until the caller closes the reader, which
\* releases it; a Load that fails returns no reader and holds no token when
\* it returns.
C10_LoadToken ==
    /\ sem = Cardinality({p \in Procs : holds[p] = 1})
    /\ \A p \in Procs :
        /\ holds[p] \in {0, 1}
        /\ g[p].pc = "idle" => holds[p] = 0
        /\ g[p].pc \in {"content", "reading"} => holds[p] = 1 /\ g[p].op = "Load"
        /\ (g[p].op = "Load" /\ g[p].pc = "ret") =>
              IF g[p].err = ErrNil
              THEN holds[p] = 1 /\ g[p].val = 1
              ELSE holds[p] = 0 /\ g[p].val = 0

\* one caller holds a reader while the other's Load has failed
C10_Witness ==
    \E p, q \in Procs :
        /\ g[p].pc = "reading" /\ holds[p] = 1
        /\ g[q].op = "Load" /\ g[q].pc = "ret" /\ g[q].err = StatusNotFound

RECURSIVE Sum(_, _)
Sum(f, S) ==
    IF S = {} THEN 0
    ELSE LET x == CHOOSE y \in S : TRUE IN f[x] + Sum(f, S \ {x})

\* tokens held by the callers, by List's goroutines and by the receiver
ListerTokens == Sum([w \in Listers |-> l[w].tok], Listers)
TokensHeld == Sum(holds, Procs) + ListerTokens + cons.tok

\* requests that are out and not answered
InFlight ==
    Cardinality({p \in Procs : g[p].pc \in {"info", "delete", "mkdir", "post", "put", "content"}})
    + Cardinality({w \in Listers : l[w].pc = "req"})
    + (IF cons.pc = "work" THEN 1 ELSE 0)

\* C2: whatever Test, Save, Load, Stat, Remove, Delete and List do
\* concurrently, the tokens taken are the tokens held, never more than
\* Connections, every request that is out has its token, and the goroutines
\* of one List hold at most Connections of them.
C2_TokensBounded ==
    /\ sem = TokensHeld
    /\ sem <= Connections
    /\ InFlight <= sem
    /\ ListerTokens <= Connections
    /\ \A w \in Listers : l[w].pc = "req" => l[w].tok = 1

\* every worker of a List has a page request out, all tokens are taken and
\* the receiver waits for one
C2_Witness ==
    /\ \A w \in Workers : l[w].pc = "req"
    /\ sem = Connections
    /\ cons.pc = "got"

\* C3: a goroutine of List that is blocked sending a name on the channel
\* holds no token (the one it took for the page was released before the
\* first name of the page is pushed), so a receiver that waits for a token
\* waits for a request that is out or for a free token, never for a blocked
\* lister.
C3_NoTokenWhilePushing ==
    /\ \A w \in Listers : l[w].pc = "send" => l[w].tok = 0
    /\ cons.pc = "got" =>
          \/ sem < Connections
          \/ \E w \in Listers : l[w].pc = "req"
          \/ \E p \in Procs : holds[p] > 0

\* a worker is blocked on the channel with a name of its page while the
\* receiver works on the name before under a token and all tokens are taken
C3_Witness ==
    \E w \in Workers :
        /\ l[w].pc = "send" /\ l[w].page # <<>>
        /\ cons.pc = "work" /\ cons.tok = 1
        /\ sem = Connections

\* C11 as stated: every public method, List and Load included, holds one
\* token from its call to its return and none outside: a caller in a method
\* holds one token, a caller outside holds none (with a reader of Load or
\* without), and a List that is running holds one.
C11_TokenForWholeCall ==
    /\ \A p \in Procs :
        /\ g[p].pc \notin {"idle", "reading"} => holds[p] = 1
        /\ g[p].pc \in {"idle", "reading"} => holds[p] = 0
    /\ lst.ch = "open" => ListerTokens = 1

\* C11: Test, Save, Stat, Remove and Delete hold one token from their first
\* request to their return and none after it; Load has none when it refuses
\* its arguments, one while its request is out, none when it returns an
\* error and one, past its return, until the reader is closed; List takes
\* none for the caller: each of its goroutines holds one exactly while a
\* page request of its own is out.
C11_TokenPerMethod ==
    /\ \A p \in Procs :
        /\ g[p].pc = "idle" => holds[p] = 0
        /\ (g[p].op \in {"Test", "Save", "Stat", "Remove", "Delete"} /\ g[p].pc # "idle") =>
              holds[p] = 1
        /\ g[p].op = "Load" =>
              holds[p] = IF g[p].pc \in {"content", "reading"}
                            \/ (g[p].pc = "ret" /\ g[p].err = ErrNil /\ g[p].val = 1)
                         THEN 1 ELSE 0
    /\ \A w \in Listers : l[w].tok = IF l[w].pc = "req" THEN 1 ELSE 0

\* a List is running with a worker at the channel and no token, while the
\* other caller is in a Save with its token and a request out
C11_Witness ==
    /\ lst.ch = "open" /\ ListerTokens = 0
    /\ \E w \in Workers : l[w].pc = "send"
    /\ \E p \in Procs : g[p].op = "Save" /\ g[p].pc = "put" /\ holds[p] = 1

\* the names stored for the type List was called with
Stored(t) ==
    {f[Len(f)] : f \in {fp \in FilePaths : srvFiles[fp] # NoFile /\ IsUnder(fp, BasedirName(t))}}

\* the receiver has seen the channel closed after every stored name once
\* and nothing else
ListedAll ==
    /\ cons.pc = "end"
    /\ \A n \in AllNames : cons.got[n] = IF n \in Stored(lst.t) THEN 1 ELSE 0

\* C12: with every page request answered and the receiver draining the
\* channel, a List that was called gets to the point where the channel is
\* closed and the receiver has received every stored name of the type once,
\* and no other name (no shard directory's).
C12_ListPublishesAll == (lst.ch = "open") ~> ListedAll

\* C13: once the context of a running List is done, its goroutines get to
\* the end and the channel is closed, whether the receiver still receives or
\* not; and nothing is received from a closed channel.
C13_CancelClosesChannel ==
    /\ (lst.ch = "open" /\ lst.ctxDone) ~> (lst.ch # "open")
    /\ [][lst.ch = "closed" /\ lst'.ch = "closed" => cons'.got = cons.got]_vars

\* the round of NewArchiveTree's loop that adds a target to the tree
AddsTarget ==
    /\ at.pc = "range" /\ at'.pc = "range" /\ at'.i = at.i + 1
    /\ at'.seen # at.seen

\* a top-level name is taken when a node of another root has it
Taken(tree, name, root) == <<name>> \in DOMAIN tree /\ tree[<<name>>].Root # root

\* origName, origName-1, origName-2, ...
NthName(origName, k) == IF k = 0 THEN origName ELSE SuffixedName(origName, k)

\* the first of these names that is not taken
FirstNotTaken(tree, origName, root) ==
    NthName(origName,
            CHOOSE k \in 0..Cardinality(DOMAIN tree) :
                /\ ~Taken(tree, NthName(origName, k), root)
                /\ \A j \in 0..(k - 1) : Taken(tree, NthName(origName, j), root))

\* the tree of targets foo/user1, ../foo/other, foo/user2
CollisionTree ==
    (<<"foo">> :> [Path |-> EmptyPath, FileInfoPath |-> <<"foo">>, Root |-> Dot])
    @@ (<<"foo", "user1">> :> [ArchiveTree EXCEPT !.Path = <<"foo", "user1">>])
    @@ (<<"foo", "user2">> :> [ArchiveTree EXCEPT !.Path = <<"foo", "user2">>])
    @@ (<<"foo-1">> :> [Path |-> EmptyPath, FileInfoPath |-> <<"..", "foo">>,
                        Root |-> <<"..">>])
    @@ (<<"foo-1", "other">> :> [ArchiveTree EXCEPT !.Path = <<"..", "foo", "other">>])

\* C15: a target that NewArchiveTree adds is stored under the first of the
\* names origName, origName-1, origName-2, ... that no node of another root
\* has: that top-level node has the target's root, the target is the Path
\* of the node its remaining components lead to from there, and no node that
\* was in the tree is lost, so a node of the same root is extended; and the
\* targets foo/user1, ../foo/other, foo/user2 give foo (root .) with user1
\* and user2 and foo-1 (root ..) with other.
C15_CollisionSuffix ==
    /\ [][AddsTarget =>
            LET target == Clean(at.targets[at.i])
                pc == pathComponents(target, FALSE)
                root == rootDirectory(target)
                name == FirstNotTaken(at.tree, pc[1], root)
                leaf == <<name>> \o Tail(pc)
            IN  /\ leaf \in DOMAIN at'.tree
                /\ at'.tree[leaf].Path = target
                /\ at'.tree[<<name>>].Root = root
                /\ DOMAIN at.tree \subseteq DOMAIN at'.tree
                /\ \A a \in DOMAIN at.tree :
                       a[1] # name => at'.tree[a] = at.tree[a]]_vars
    /\ [](at.pc = "ret" /\ at.targets = <<<<"foo", "user1">>, <<"..", "foo", "other">>,
                                          <<"foo", "user2">>>>
            => at.err = ErrNil /\ at.tree = CollisionTree)

\* NewArchiveTree has returned the tree of foo/user1, ../foo/other, foo/user2
C15_Witness ==
    /\ at.pc = "ret" /\ at.err = ErrNil
    /\ at.targets = <<<<"foo", "user1">>, <<"..", "foo", "other">>, <<"foo", "user2">>>>
    /\ <<"foo-1", "other">> \in DOMAIN at.tree
    /\ <<"foo", "user2">> \in DOMAIN at.tree

\* the list without every target that equals an earlier one after cleaning
WithoutLaterDuplicates(targets) ==
    LET keep == {i \in 1..Len(targets) :
                    \A j \in 1..(i - 1) : Clean(targets[j]) # Clean(targets[i])}
        RECURSIVE Kept(_)
        Kept(i) == IF i > Len(targets) THEN <<>>
                   ELSE IF i \in keep THEN <<targets[i]>> \o Kept(i + 1)
                   ELSE Kept(i + 1)
    IN  Kept(1)

\* C16: what NewArchiveTree returns for a target list is what it returns for
\* the list with every later target that equals an earlier one after cleaning
\* removed, and it never returns the error 'path is already set'.
C16_DuplicatesDropped ==
    at.pc = "ret" =>
        /\ at.err # ErrPathAlreadySet
        /\ [err |-> at.err, tree |-> at.tree] = BuildTree(WithoutLaterDuplicates(at.targets))

\* the distinct targets of the call, cleaned
CleanedTargets == {Clean(at.targets[i]) : i \in 1..Len(at.targets)}

\* C17: in a tree NewArchiveTree returns, the Path of a node that has one is
\* a cleaned target, every distinct cleaned target is the Path of exactly
\* one node, and a node without Path has a FileInfoPath.
C17_LeafIffTarget ==
    at.pc = "ret" /\ at.err = ErrNil =>
        /\ \A a \in DOMAIN at.tree :
               /\ at.tree[a].Path # EmptyPath => at.tree[a].Path \in CleanedTargets
               /\ at.tree[a].Path = EmptyPath => at.tree[a].FileInfoPath # EmptyPath
        /\ \A target \in CleanedTargets :
               Cardinality({a \in DOMAIN at.tree : at.tree[a].Path = target}) = 1

\* the repository calls of Snapshot so far, in order
Ops == [i \in 1..Len(sn.log) |-> sn.log[i].op]

\* before position i of the log only blobs and trees were saved, the last of
\* them the root tree
TreesThenRoot(i) ==
    /\ i > 1
    /\ \A j \in 1..(i - 1) : Ops[j] \in {"SaveBlob", "SaveTree"}
    /\ sn.log[i - 1] = [op |-> "SaveTree", data |-> sn.tree]

\* C14: Snapshot flushes only after every tree is saved, the root tree
\* last, saves the index right after the flush and the snapshot right after
\* the index, and once a step has failed it has returned the error and has
\* saved no snapshot.
C14_SnapshotOrder ==
    /\ \A i \in 1..Len(sn.log) :
           /\ Ops[i] = "Flush" => TreesThenRoot(i)
           /\ Ops[i] = "SaveIndex" => i > 1 /\ Ops[i - 1] = "Flush"
           /\ Ops[i] = "SaveSnapshot" =>
                  i > 1 /\ Ops[i - 1] = "SaveIndex" /\ i = Len(sn.log)
    /\ sn.failed =>
           /\ sn.pc = "ret" /\ sn.err # ErrNil
           /\ \A i \in 1..Len(sn.log) : Ops[i] # "SaveSnapshot"

\* the nodes of the trees saved so far, and the files blobs were saved for
SavedNodes == UNION {sn.log[i].data : i \in {i \in 1..Len(sn.log) : Ops[i] = "SaveTree"}}
SavedFiles == {sn.log[i].data[1] : i \in {i \in 1..Len(sn.log) : Ops[i] = "SaveBlob"}}

IsPrefix(p, q) == Len(p) <= Len(q) /\ SubSeq(q, 1, Len(p)) = p

\* the items the leaves of the archive tree name, and the directories its
\* other nodes take their metadata from
LeafItems == {Abs(sn.atree[a].Path) : a \in {a \in DOMAIN sn.atree : sn.atree[a].Path # EmptyPath}}
IntermediateItems ==
    {Abs(sn.atree[a].FileInfoPath) : a \in {a \in DOMAIN sn.atree : sn.atree[a].Path = EmptyPath}}

\* Select accepts the item and every directory between it and a leaf of the
\* archive tree it lies in or under
AcceptedFromLeaf(item) ==
    \E leaf \in LeafItems :
        /\ IsPrefix(leaf, item)
        /\ \A q \in Selectable : IsPrefix(leaf, q) /\ IsPrefix(q, item) => Select(sn.rejected, q)

\* Snapshot has returned with the snapshot saved
SnapshotSaved == sn.pc = "ret" /\ sn.err = ErrNil

Retained == Len(ix.Packs) + (IF ix.pc = "pack" THEN 1 ELSE 0)

\* C19: while LoadIndex runs and after it, the streamer holds at most one
\* decoded pack record, however many the document has.
C19_OnePackAtATime == Retained <= 1

\* the pack records of the stream, in its order
StreamPacks ==
    LET packs == SelectSeq(ix.stream, LAMBDA t : t.kind = "pack")
    IN  [i \in 1..Len(packs) |-> packs[i].pack]

\* LoadIndex has returned an Index and no error
IndexLoaded ==
    ix.pc = "ret" /\ ix.impl = "Index" /\ ix.err = ErrNil /\ ~ix.nilResult

\* C20 as stated: after LoadIndex no pack ID is twice in treePacks, and the
\* IDs in it are those of the packs of the document without Data blobs.
C20_TreePacksSet ==
    IndexLoaded =>
        /\ \A i, k \in 1..Len(ix.treePacks) : ix.treePacks[i] = ix.treePacks[k] => i = k
        /\ {ix.treePacks[i] : i \in 1..Len(ix.treePacks)}
               = {StreamPacks[i].ID : i \in {i \in 1..Len(StreamPacks) :
                        \A b \in 1..Len(StreamPacks[i].Blobs) :
                            StreamPacks[i].Blobs[b].Type # DataBlob}}

\* the pack has a Tree blob and no Data blob
TreeOnly(pack) ==
    /\ \E b \in 1..Len(pack.Blobs) : pack.Blobs[b].Type = TreeBlob
    /\ \A b \in 1..Len(pack.Blobs) : pack.Blobs[b].Type # DataBlob

\* C20: after LoadIndex treePacks lists, in the order of the document and
\* once for every pack record, the IDs of the pack records that have a Tree
\* blob and no Data blob.
C20_TreePacksPerRecord ==
    IndexLoaded =>
        ix.treePacks = LET packs == SelectSeq(StreamPacks, TreeOnly)
                       IN  [i \in 1..Len(packs) |-> packs[i].ID]

\* an Index is loaded from a document with a pack of both kinds and a tree
\* pack: the tree pack alone is in treePacks
C20_Witness ==
    /\ IndexLoaded
    /\ ix.treePacks = <<"p2">>
    /\ \E i \in 1..Len(StreamPacks) : StreamPacks[i].ID = "p3"

\* a response with a status outside 200..299
HTTPFailure(st) == st > 0 /\ ~isHTTPSuccess(st)

\* the answers that are not errors to the method that got them: 412 to a
\* folder create, 404 to Delete, 404 to Test and to the config probe of open
Recognised(op, r) ==
    \/ r.m = "MKDIR" /\ r.st = StatusPreconditionFailed
    \/ op = "Delete" /\ r.m = "DELETE" /\ r.st = StatusNotFound
    \/ op = "Test" /\ r.m = "GET" /\ r.st = StatusNotFound
    \/ op \in {"Open", "Create"} /\ r.m = "GET" /\ r.st = StatusNotFound

\* every method that returns an error returns the status of a non-2xx answer
\* it got, the recognised answers apart, and nothing is sent after it
MethodsSurfaceStatus ==
    \A p \in Procs :
        \A i \in 1..Len(g[p].log) :
            LET r == g[p].log[i]
            IN  (HTTPFailure(r.st) /\ ~Recognised(g[p].op, r)) =>
                    /\ g[p].pc = "ret"
                    /\ i = Len(g[p].log)
                    /\ g[p].err = r.st
                    /\ isNotExist(g[p].err) <=> r.st = StatusNotFound

\* what List gives its caller besides the channel: it has no error result
ListError == ErrNil

\* C21: every answer with a status outside 200..299 that a backend method
\* gets is returned by it as an error carrying that status, except 412 to a
\* folder create, 404 to Delete, 404 to Test and to the config probe of open;
\* IsNotExist holds of the error exactly when the status is 404. For List:
\* a listing that has ended for its receiver has handed it the status of
\* every non-2xx answer it got.
C21_StatusSurfaces ==
    /\ MethodsSurfaceStatus
    /\ cons.pc = "end" =>
          \A e \in lst.stderr : HTTPFailure(e) => ListError = e

\* the request a call of onedriveCreateFolder has just been answered
CreateAnswered(p) == g[p].pc = "create" /\ g'[p].pc = "ret"

\* C22: onedriveCreateFolder is idempotent. For a folder that is there when
\* the request is answered, also when another caller has created it since the
\* call began, the answer is 412, the call returns nil and the folder stays;
\* for a missing folder whose parent is there the answer 201 creates it and
\* the call returns nil; every other non-2xx answer is returned as the error
\* with that status. A call that returns nil leaves the folder in place.
C22_CreateFolderIdempotent ==
    [][\A p \in Procs : CreateAnswered(p) =>
        LET r == g'[p].log[Len(g'[p].log)]
            err == g'[p].err
        IN  /\ r.path \in srvFolders =>
                /\ r.path \in srvFolders'
                /\ (r.st = StatusPreconditionFailed \/ isHTTPSuccess(r.st)) <=> err = ErrNil
                /\ r.st \notin Faults => r.st = StatusPreconditionFailed
            /\ (/\ r.path \notin srvFolders
                /\ Len(r.path) = 1 \/ Parent(r.path) \in srvFolders
                /\ r.st \notin Faults) =>
                /\ r.st = StatusCreated
                /\ err = ErrNil
                /\ r.path \in srvFolders'
            /\ (HTTPFailure(r.st) /\ r.st # StatusPreconditionFailed) =>
                /\ err = r.st
                /\ srvFolders' = srvFolders
            /\ err = ErrNil => r.path \in srvFolders']_vars

\* two overlapping calls for the same subfolder: one has created it, the
\* other was answered 412 and has returned nil as well
C22_Witness ==
    /\ \A p \in Procs : g[p].pc = "ret" /\ g[p].op = "CreateFolder" /\ g[p].idx = 2
                        /\ g[p].err = ErrNil
    /\ \E p, q \in Procs :
        /\ g[p].log[1].st = StatusCreated
        /\ g[q].log[1].st = StatusPreconditionFailed
    /\ TestFolders[2] \in srvFolders

\* a Save whose reader is neither an *os.File nor has Len(): readerSize gives -1
UnknownSizeSave(p) == g[p].op = "Save" /\ g[p].length < 0

\* C23: a Save whose reader is neither a file nor has Len() sends no
\* createUploadSession POST and no fragment PUT, and it fails: with the
\* unknown-size error of onedriveItemUpload whenever createFolders, which
\* Save calls first, has returned nil (a failed folder create is returned
\* before the reader is looked at).
C23_UnknownSizeNoUpload ==
    \A p \in Procs : UnknownSizeSave(p) =>
        /\ UploadIdx(p) = {}
        /\ g[p].pc \notin {"post", "put"}
        /\ g[p].sess = "Init"
        /\ g[p].pc = "ret" =>
              /\ g[p].err # ErrNil
              /\ g[p].err = ErrUnknownSize
                    <=> \A i \in MkdirIdx(p) : ~FolderCreateFailed(g[p].log[i].st)

\* such a Save has created the folders of the handle and has then returned
\* the unknown-size error, nothing else having been sent
C23_Witness ==
    \E p \in Procs :
        /\ UnknownSizeSave(p) /\ g[p].pc = "ret" /\ g[p].err = ErrUnknownSize
        /\ Len(g[p].log) = 2
        /\ \A i \in 1..2 : g[p].log[i].m = "MKDIR" /\ g[p].log[i].st = StatusCreated

\* C24: Load(length, offset) with a negative offset or length returns an
\* error with no token taken and no request sent. Otherwise it sends one GET
\* for the content that asks for the bytes offset..offset+length-1 when
\* length > 0, for the bytes from offset to the end when length = 0 and
\* offset > 0, and has no Range header when both are 0; an answer of 200 or
\* of 206 gives the caller the reader and no error.
C24_LoadRange ==
    \A p \in Procs : g[p].op = "Load" =>
        LET lg == g[p].log
            length == g[p].length
            offset == g[p].pos
        IN  IF length < 0 \/ offset < 0
            THEN /\ lg = <<>>
                 /\ holds[p] = 0
                 /\ g[p].pc = "ret"
                 /\ g[p].err # ErrNil
            ELSE /\ Len(lg) <= 1
                 /\ g[p].pc \in {"ret", "reading"} => Len(lg) = 1
                 /\ \A i \in 1..Len(lg) :
                      /\ lg[i].m = "GET" /\ lg[i].path = Filename(g[p].h)
                      /\ length > 0 =>
                            /\ lg[i].range.first = offset
                            /\ lg[i].range.last = offset + length - 1
                            /\ lg[i].range.last - lg[i].range.first + 1 = length
                      /\ (length = 0 /\ offset > 0) =>
                            /\ lg[i].range.first = offset
                            /\ lg[i].range.last = ToEnd
                      /\ (length = 0 /\ offset = 0) => lg[i].range = NoRange
                      /\ lg[i].range # NoRange => lg[i].range.total = ToEnd
                      /\ lg[i].st \in {StatusOK, StatusPartialContent} =>
                            g[p].err = ErrNil /\ g[p].val = 1

\* a Load of length 0 from offset 1 that was answered 206 and gave a reader
C24_Witness ==
    \E p \in Procs :
        /\ g[p].op = "Load" /\ g[p].pc = "reading"
        /\ g[p].length = 0 /\ g[p].pos = 1
        /\ g[p].log = <<Req(Client, "GET", Filename(DataA), ByteRange(1, ToEnd),
                            StatusPartialContent)>>

\* C25: Delete sends one DELETE, for the repository root, and returns nil
\* when the remote removed it (2xx) and when it answered 404, so that a
\* Delete after a Delete returns nil as the first did; every other non-2xx
\* answer is returned as the error with that status.
C25_DeleteIdempotent ==
    \A p \in Procs : g[p].op = "Delete" =>
        LET lg == g[p].log
        IN  /\ Len(lg) <= 1
            /\ g[p].pc = "ret" <=> Len(lg) = 1
            /\ \A i \in 1..Len(lg) :
                /\ lg[i].m = "DELETE" /\ lg[i].path = Prefix
                /\ (isHTTPSuccess(lg[i].st) \/ lg[i].st = StatusNotFound) <=> g[p].err = ErrNil
                /\ (HTTPFailure(lg[i].st) /\ lg[i].st # StatusNotFound) => g[p].err = lg[i].st
                /\ lg[i].st = StatusNotFound => Prefix \notin srvFolders
                /\ isHTTPSuccess(lg[i].st) =>
                      \A d \in srvFolders : ~IsUnder(d, Prefix)

\* the repository was there when the backend was made; a Delete has removed
\* it, and the Delete after it was answered 404 and has returned nil
C25_Witness ==
    \E p \in Procs :
        /\ folders[Prefix] = "done"
        /\ g[p].op = "Delete" /\ g[p].pc = "ret" /\ g[p].err = ErrNil
        /\ g[p].log[1].st = StatusNotFound
        /\ srvFolders = {}

\* the strings of the form onedrive:PREFIX with PREFIX not empty
WellFormed(s) ==
    /\ Len(s) > Len(Scheme) + 1
    /\ SubSeq(s, 1, Len(Scheme)) = Scheme
    /\ s[Len(Scheme) + 1] = Colon

\* C26: ParseConfig accepts exactly the strings onedrive:PREFIX with a
\* PREFIX that is not empty; the Config it returns has as Prefix everything
\* after the first colon, Connections 5 and a Timeout of 5 minutes; a string
\* without a colon, with another scheme or with an empty prefix is rejected
\* with an error and no Config.
C26_ParseConfig ==
    cf.pc = "ret" =>
        /\ cf.err = ErrNil <=> WellFormed(cf.s)
        /\ cf.err = ErrNil =>
              /\ cf.cfg.Prefix = SubSeq(cf.s, Len(Scheme) + 2, Len(cf.s))
              /\ Scheme \o <<Colon>> \o cf.cfg.Prefix = cf.s
              /\ cf.cfg.Connections = 5
              /\ cf.cfg.Timeout = 300
              /\ cf.cfg.SecretsFilePath = <<>>
        /\ cf.err # ErrNil => cf.cfg = NilConfig
        /\ (\A i \in 1..Len(cf.s) : cf.s[i] # Colon) => cf.err # ErrNil
        /\ (Len(cf.s) > 0 /\ cf.s[Len(cf.s)] = Colon
              /\ \A i \in 1..(Len(cf.s) - 1) : cf.s[i] # Colon) => cf.err # ErrNil

\* onedrive::/ was accepted, with the prefix :/
C26_Witness ==
    /\ cf.pc = "ret" /\ cf.err = ErrNil
    /\ cf.s = Scheme \o <<Colon, Colon, "/">>
    /\ cf.cfg.Prefix = <<Colon, "/">>

\* the oauth2 transport of be.client puts the Authorization header on every
\* request it sends; be.nakedClient has the bare transport
Authorization(r) == r.c = Client

\* C27: of the requests of an upload, the createUploadSession POST is sent
\* through the OAuth client and carries the Authorization header, and every
\* fragment PUT is sent through the unauthenticated client: no request to an
\* uploadUrl carries the Authorization header.
C27_NoTokenToUploadUrl ==
    \A p \in Procs :
        \A i \in UploadIdx(p) :
            LET r == g[p].log[i]
            IN  /\ r.m = "POST" => r.c = Client /\ Authorization(r)
                /\ r.m = "PUT" => r.c = NakedClient /\ ~Authorization(r)
                /\ Authorization(r) <=> r.m = "POST"

\* an upload of two fragments: the POST with the header, the PUTs without
C27_Witness ==
    \E p \in Procs :
        /\ g[p].op = "Save" /\ g[p].pc = "ret" /\ g[p].err = ErrNil
        /\ Len(g[p].log) >= 3
        /\ LET n == Len(g[p].log)
           IN  /\ g[p].log[n - 2].m = "POST" /\ Authorization(g[p].log[n - 2])
               /\ g[p].log[n - 1].m = "PUT" /\ ~Authorization(g[p].log[n - 1])
               /\ g[p].log[n].m = "PUT" /\ ~Authorization(g[p].log[n])

\* a target with no path component after cleaning: ".", "..", "../..", "/"
DotOnly(t) == \A i \in 1..Len(Clean(t)) : Clean(t)[i] \in {".", "..", Separator}

\* what resolveRelativeTargets puts in the place of the target t
Resolved(t) == IF DotOnly(t) THEN {Join(t, <<n>>) : n \in Entries(t)} ELSE {t}

\* NewArchiveTree fails on a list with a target that has no path component,
\* with the error of Add when it comes to that target
TreeRejectsDots ==
    at.pc = "ret" =>
        /\ (\E i \in 1..Len(at.targets) : DotOnly(at.targets[i])) =>
              at.err # ErrNil /\ at.tree = EmptyTree
        /\ at.err = ErrNoPathComponents <=>
              at.i <= Len(at.targets) /\ DotOnly(at.targets[at.i])

\* Snapshot never fails with that error, and past resolveRelativeTargets it
\* has no such target
SnapshotResolvesDots ==
    /\ sn.err # ErrNoPathComponents
    /\ sn.pc \notin {"idle", "resolve"} /\ ~(sn.failed /\ sn.err = ErrNotExist) =>
          \A i \in 1..Len(sn.targets) : ~DotOnly(sn.targets[i])

\* resolveRelativeTargets puts the entries of the directory in the place of
\* each such target and keeps the others
ResolveReplaces ==
    (sn.pc = "resolve" /\ sn'.pc = "newtree") =>
        {sn'.targets[i] : i \in 1..Len(sn'.targets)}
            = UNION {Resolved(sn.targets[i]) : i \in 1..Len(sn.targets)}

\* C28: NewArchiveTree returns an error for every target that has no path
\* component after cleaning ('.', '..', '../..'); Snapshot replaces each such
\* target by the entries of that directory before it builds the tree, so a
\* Snapshot of such targets does not fail with that error.
C28_DotTargetsResolved ==
    /\ [](TreeRejectsDots /\ SnapshotResolvesDots)
    /\ [][ResolveReplaces]_vars

\* a Snapshot of '..' has saved the snapshot, its target being '../src',
\* the one entry of the directory above the working directory
C28_Witness ==
    /\ sn.pc = "ret" /\ ~sn.failed
    /\ sn.targets = <<<<"..", "src">>>>
    /\ sn.log # <<>> /\ sn.log[Len(sn.log)].op = "SaveSnapshot"

\* every node the archiver holds: in a frame of the stack, in the tree of the
\* snapshot, or handed to SaveTree
HeldNodes ==
    SavedNodes \cup sn.tree \cup UNION {sn.stack[k].tree : k \in 1..Len(sn.stack)}

\* the blobs handed to SaveBlob for the file, in the order of the calls
BlobsOf(file) ==
    LET OfFile(e) == e.op = "SaveBlob" /\ e.data[1] = file
        saved == SelectSeq(sn.log, OfFile)
    IN  [i \in 1..Len(saved) |-> saved[i].data]

\* the content of a file node is the IDs of all chunks of the file in chunk
\* order (none for an empty file); a SaveFile under way has the IDs of the
\* chunks it has saved, in order, and has saved no other blob of the file
ContentInChunkOrder ==
    /\ \A node \in HeldNodes :
        node.Type = "file" =>
            /\ node.Content = FileItems[node.item]
            /\ node.Subtree = {}
            /\ BlobsOf(node.item) = node.Content
    /\ \A k \in 1..Len(sn.stack) :
        sn.stack[k].fn = "SaveFile" =>
            LET f == sn.stack[k]
                chunks == FileItems[Abs(f.path)]
            IN  /\ f.content = SubSeq(chunks, 1, Len(f.content))
                /\ f.todo = (Len(f.content) + 1)..Len(chunks)
                /\ BlobsOf(Abs(f.path)) = f.content
    /\ \A file \in DOMAIN FileItems :
        BlobsOf(file) = SubSeq(FileItems[file], 1, Len(BlobsOf(file)))

\* a round of the loop that finds the context cancelled, before SaveBlob or
\* after it, ends SaveFile with the error of the context and without a node;
\* found before SaveBlob, the chunk is not saved
CancelledRound ==
    (/\ sn.pc = "save" /\ Top.fn = "SaveFile" /\ Top.todo # {}
     /\ (sn'.pc # sn.pc \/ sn'.stack # sn.stack \/ sn'.log # sn.log))
    => /\ (sn.ctx = "cancelled" => sn'.log = sn.log)
       /\ (sn'.ctx = "cancelled" =>
            /\ sn'.pc = "ret" /\ sn'.err = ErrCanceled /\ sn'.failed
            /\ sn'.stack = <<>> /\ sn'.tree = {})
       /\ (sn'.err = ErrCanceled => sn'.ctx = "cancelled")

Reordered(targets) ==
    {[i \in 1..Len(targets) |-> targets[order[i]]] : order \in Orders(1..Len(targets))}

\* all targets of the list have the root directory of the first
SameRoot(targets) ==
    \A i \in 1..Len(targets) :
        rootDirectory(Clean(targets[i])) = rootDirectory(Clean(targets[1]))

\* a target and a target nested below it are one node of the tree, which has
\* the Path of the first and below it the node of the second
NestedInOneNode(tree, dir, nested) ==
    LET a == pathComponents(dir, FALSE)
        b == pathComponents(nested, FALSE)
    IN  /\ a \in DOMAIN tree /\ tree[a].Path = dir
        /\ b \in DOMAIN tree /\ tree[b].Path = nested
        /\ SubSeq(b, 1, Len(a)) = a
        /\ tree[a].FileInfoPath = IF Len(a) = 1 THEN dir ELSE Join(tree[<<a[1]>>].Root, dir)

\* C30: when NewArchiveTree returns for targets that all have the same root
\* directory, what it returns, tree or error, is what it returns for the
\* same targets in every other order; a directory target and a target nested
\* below it, such as foo/work and foo/work/user2, are in either order one
\* node with the Path of the directory and the node of the nested target
\* below it.
C30_OrderIndependent ==
    (at.pc = "ret" /\ SameRoot(at.targets)) =>
        /\ \A other \in Reordered(at.targets) :
            BuildTree(other) = [err |-> at.err, tree |-> at.tree]
        /\ \A i, j \in 1..Len(at.targets) :
            LET dir == Clean(at.targets[i])
                nested == Clean(at.targets[j])
            IN  (/\ at.err = ErrNil /\ dir # nested
                 /\ Len(nested) > Len(dir) /\ SubSeq(nested, 1, Len(dir)) = dir)
                => NestedInOneNode(at.tree, dir, nested)

\* NewArchiveTree returned for foo/work/user2 followed by foo/work: the node
\* work has the Path foo/work and the node user2 below it
C30_Witness ==
    /\ at.pc = "ret" /\ at.err = ErrNil
    /\ at.targets = <<<<"foo", "work", "user2">>, <<"foo", "work">>>>
    /\ at.tree[<<"foo", "work">>].Path = <<"foo", "work">>
    /\ at.tree[<<"foo", "work", "user2">>].Path = <<"foo", "work", "user2">>
    /\ DOMAIN at.tree = {<<"foo">>, <<"foo", "work">>, <<"foo", "work", "user2">>}
    /\ BuildTree(<<<<"foo", "work">>, <<"foo", "work", "user2">>>>).tree = at.tree

\* createFolders has returned nil to p: its Save is at the upload
FoldersReturnedNil(p) == g[p].op = "Save" /\ g[p].pc \in {"post", "put"}

\* the one create request that was sent for the path is in a caller's log
\* with an answer that makes onedriveCreateFolder fail: no create request for
\* the path was answered 2xx or 412
OnlyCreateFailed(path) ==
    /\ creates[path] = 1
    /\ \E q \in Procs : \E i \in MkdirIdx(q) :
        g[q].log[i].path = path /\ FolderCreateFailed(g[q].log[i].st)

\* C31: createFolders returns nil to a caller only if, for every ancestor
\* path, a create request for that path was answered 2xx or 412: no caller is
\* past createFolders while the only create request sent for one of its
\* ancestor paths is one that failed.
C31_NilOnlyAfterCreate ==
    \A p \in Procs :
        FoldersReturnedNil(p) =>
            \A k \in 1..Len(pathNames(Dirname(g[p].h))) :
                ~OnlyCreateFailed(pathNames(Dirname(g[p].h))[k])

\* C32: the folder-existence map keeps no entry for a folder that Delete
\* removed: every path whose Once the map holds as done, that is every path a
\* later Save sends no create request for, exists remotely.
C32_KnownFoldersExist ==
    \A d \in AllDirs : folders[d] = "done" => d \in srvFolders

\* p's Save has returned nil
SaveReturnedNil(p) == g[p].op = "Save" /\ g[p].pc = "ret" /\ g[p].err = ErrNil

\* what Test on the handle of p returns now: true for 200 to the item query
TestFinds(p) == onedriveItemInfo(ServerItemInfo(Filename(g[p].h))) = ErrNil

\* the upload session of p's Save reached Completed: a fragment PUT was
\* answered 2xx and the object is there
UploadCompleted(p) ==
    /\ g[p].sess = "Completed"
    /\ \E i \in PutIdx(p) : isHTTPSuccess(g[p].log[i].st)
    /\ Exists(Filename(g[p].h))
    /\ TestFinds(p)

\* C33: Save returns nil only when its upload session reached Completed, at
\* least one fragment PUT having been answered 2xx and the object being there
\* afterwards, for a reader of every length, 0 included.
C33_NilOnlyWhenCompleted ==
    \A p \in Procs : SaveReturnedNil(p) => UploadCompleted(p)

\* the same for the readers that have at least one byte
SaveOfBytesCompleted ==
    \A p \in Procs : (SaveReturnedNil(p) /\ g[p].length > 0) => UploadCompleted(p)

\* C34: for every Connections >= 1 and every file type, with every request
\* answered and the receiver receiving, a List that was called closes its
\* channel, and its goroutine does not stay at the send of a shard
\* subdirectory to the workers.
C34_ListCloses ==
    /\ (lst.ch = "open") ~> (lst.ch = "closed")
    /\ (l[0].pc = "push") ~> (l[0].pc # "push")

\* a goroutine of List is running
ListRunning == \E w \in Listers : l[w].pc \notin {"off", "exit", "done"}

\* no method is in progress, no reader of Load is open, no goroutine of List
\* is running and the receiver is not at work with a token
Quiescent ==
    /\ \A p \in Procs : g[p].pc = "idle"
    /\ ~ListRunning
    /\ cons.pc # "work"

\* a step that gives a token back gives one back, and it is one its holder had
ReleasedOnce ==
    sem' < sem =>
        /\ sem' = sem - 1
        /\ \/ \E p \in Procs : holds[p] = 1 /\ holds'[p] = 0
           \/ \E w \in Listers : l[w].tok = 1 /\ l'[w].tok = 0
           \/ cons.tok = 1 /\ cons'.tok = 0

\* C35: in every interleaving of Test, Save, Load, Stat, Remove, Delete and
\* List, error answers, requests that are not answered and a context that is
\* done included, every token taken is held by the one that took it, is
\* released once, and all Connections tokens are available whenever no method
\* is in progress, no goroutine of List is running and every reader that Load
\* returned is closed.
C35_TokensReturned ==
    /\ [](/\ sem = TokensHeld
          /\ \A p \in Procs : holds[p] \in {0, 1}
          /\ \A w \in Listers : l[w].tok \in {0, 1}
          /\ cons.tok \in {0, 1}
          /\ Quiescent => sem = 0)
    /\ [][ReleasedOnce]_vars

\* a Load was refused with an error, a List was cut short by a context that
\* was done and its channel closed with the receiver gone: no token is out
C35_Witness ==
    /\ Quiescent /\ sem = 0
    /\ lst.ch = "closed" /\ lst.ctxDone /\ cons.pc = "gone"
    /\ lst.stderr # {}
    /\ \E w \in Listers : l[w].pc = "exit"

\* the token streams of the well-formed index objects: complete, every key
\* supersedes or packs
WellFormedDocuments ==
    {d \in Documents : \A i \in 1..Len(d) : d[i].key \in {"supersedes", "packs"}}

WellFormedStreams == {Tokens(doc) : doc \in WellFormedDocuments}

\* the document a well-formed stream is the tokens of
DocumentOf ==
    [stream \in WellFormedStreams |->
        CHOOSE doc \in WellFormedDocuments : Tokens(doc) = stream]

\* once j.err is set no token is read
ErrorStopsReading ==
    [][(ix.err # ErrNil /\ ix'.pc # "idle") => ix'.pos = ix.pos]_vars

\* C36: LoadIndex never returns a nil index together with a nil error, and
\* for every input that is not a well-formed index object (a key other than
\* supersedes and packs, a truncated stream) the error it returns is not nil.
C36_NoNilIndexWithoutError ==
    ix.pc = "ret" =>
        /\ ~(ix.nilResult /\ ix.err = ErrNil)
        /\ ix.stream \notin WellFormedStreams => ix.err # ErrNil

\* ... which holds of every well-formed index object that is cut short
TruncatedHasError ==
    (/\ ix.pc = "ret"
     /\ ix.stream \notin WellFormedStreams
     /\ \E whole \in WellFormedStreams :
            Len(ix.stream) < Len(whole) /\ ix.stream = SubSeq(whole, 1, Len(ix.stream)))
    => ix.err # ErrNil /\ ~ix.nilResult

\* Decoding the whole document at once (json.Unmarshal into a jsonIndex and
\* one entry per blob of every pack): the supersedes list is the array under
\* that key, nil without the key; the entries are the blobs of all the packs.
WholeSupersedes(doc) ==
    IF \E i \in 1..Len(doc) : doc[i].key = "supersedes"
    THEN doc[CHOOSE i \in 1..Len(doc) : doc[i].key = "supersedes"].ids
    ELSE <<>>

WholeEntries(doc) ==
    UNION {UNION {{PackedBlob(doc[i].packs[k].Blobs[b], doc[i].packs[k].ID) :
                        b \in 1..Len(doc[i].packs[k].Blobs)} :
                    k \in 1..Len(doc[i].packs)} :
             i \in {i \in 1..Len(doc) : doc[i].key = "packs"}}

\* the entries of what the streaming LoadIndex built: those stored in the
\* Index, or those of the packs of the jsonIndex
StreamedEntries ==
    IF ix.impl = "Index" THEN {ix.entries[i] : i \in 1..Len(ix.entries)}
    ELSE UNION {{PackedBlob(ix.Packs[k].Blobs[b], ix.Packs[k].ID) :
                    b \in 1..Len(ix.Packs[k].Blobs)} : k \in 1..Len(ix.Packs)}

\* C37: for every well-formed index document, with supersedes before packs,
\* after it or absent, the streaming LoadIndex returns without error an index
\* with the supersedes list and the set of entries (blob ID, type, pack ID,
\* offset, length) that decoding the whole document at once gives.
C37_StreamingEqualsWhole ==
    (ix.pc = "ret" /\ ix.stream \in WellFormedStreams) =>
        /\ ix.err = ErrNil /\ ~ix.nilResult
        /\ ix.supersedes = WholeSupersedes(DocumentOf[ix.stream])
        /\ StreamedEntries = WholeEntries(DocumentOf[ix.stream])

\* LoadIndex into an Index returned for a document with its packs, two of
\* them and one with two blobs, before its supersedes
C37_Witness ==
    /\ ix.pc = "ret" /\ ix.impl = "Index" /\ ix.err = ErrNil
    /\ ix.stream = Tokens(<<Member("packs", <<>>,
                               <<packJSON("p1", <<Blob(DataBlob, "b1", 0, 10)>>),
                                 packJSON("p3", <<Blob(TreeBlob, "b3", 0, 10),
                                                  Blob(DataBlob, "b4", 10, 10)>>)>>),
                            Member("supersedes", <<"i1">>, <<>>)>>)
    /\ ix.supersedes = <<"i1">>
    /\ Len(ix.entries) = 3

\* the answer to the one request of p's method
Answer(p) == g[p].log[Len(g[p].log)].st

\* C38: Test returns (true, nil) when the item query succeeds, (false, nil)
\* exactly when the remote answers 404, and (false, err) with the error of
\* the query for every other failure; Stat of an object that is not there
\* returns an error of which IsNotExist is true, and Stat of one that is
\* there returns, when the query succeeds, the size the remote has for it.
C38_TestAndStat ==
    \A p \in Procs :
        /\ (g[p].op = "Test" /\ g[p].pc = "ret") =>
            /\ Len(g[p].log) = 1
            /\ isHTTPSuccess(Answer(p)) => (g[p].val = 1 /\ g[p].err = ErrNil)
            /\ (g[p].val = 0 /\ g[p].err = ErrNil) <=> Answer(p) = StatusNotFound
            /\ (~isHTTPSuccess(Answer(p)) /\ Answer(p) # StatusNotFound) =>
                  (g[p].val = 0 /\ g[p].err = Answer(p) /\ g[p].err # ErrNil)
        /\ (g[p].op = "Stat" /\ g[p].pc = "ret") =>
            /\ Len(g[p].log) = 1
            /\ Answer(p) = StatusNotFound =>
                  (g[p].err # ErrNil /\ isNotExist(g[p].err))
            /\ (~Exists(Filename(g[p].h)) /\ Answer(p) \notin Faults) =>
                  isNotExist(g[p].err)
            /\ isHTTPSuccess(Answer(p)) =>
                  /\ g[p].err = ErrNil
                  /\ Exists(Filename(g[p].h))
                  /\ g[p].val = srvFiles[Filename(g[p].h)]
            /\ g[p].err = ErrNil <=> isHTTPSuccess(Answer(p))

\* Stat of an object that is not there has returned the 404 of the remote
C38_Witness ==
    \E p \in Procs :
        /\ g[p].op = "Stat" /\ g[p].pc = "ret"
        /\ ~Exists(Filename(g[p].h))
        /\ Answer(p) = StatusNotFound
        /\ g[p].err = newHTTPError(StatusNotFound) /\ isNotExist(g[p].err)

\* the segments of a path that are not empty: the runs of characters other
\* than the separator, as <<first, last>>, that cannot be made longer
RunsOf(path) ==
    {r \in (1..Len(path)) \X (1..Len(path)) :
        /\ r[1] <= r[2]
        /\ \A i \in r[1]..r[2] : path[i] # Slash
        /\ r[1] = 1 \/ path[r[1] - 1] = Slash
        /\ r[2] = Len(path) \/ path[r[2] + 1] = Slash}

\* the k-th of them from the left
NthRun(path, k) ==
    CHOOSE r \in RunsOf(path) : Cardinality({q \in RunsOf(path) : q[1] < r[1]}) = k - 1

\* the first k of them joined by one separator each
RECURSIVE JoinedRuns(_, _)
JoinedRuns(path, k) ==
    LET r == NthRun(path, k)
        segment == SubSeq(path, r[1], r[2])
    IN  IF k = 1 THEN segment ELSE JoinedRuns(path, k - 1) \o <<Slash>> \o segment

\* a path without a leading, a trailing or a repeated separator
Normalised(path) ==
    /\ path # <<>> => (path[1] # Slash /\ path[Len(path)] # Slash)
    /\ \A i \in 1..(Len(path) - 1) : ~(path[i] = Slash /\ path[i + 1] = Slash)

\* C39: pathNames(p) returns, shallowest first, one name per segment of p
\* that is not empty, the k-th being the first k such segments joined by
\* single separators, so the last is p normalised; leading, trailing and
\* repeated separators make no difference, and there is no name for "" and
\* for "/".
C39_PathNames ==
    pn.pc = "ret" =>
        LET n == Cardinality(RunsOf(pn.path))
        IN  /\ Len(pn.names) = n
            /\ \A k \in 1..n :
                /\ pn.names[k] = JoinedRuns(pn.path, k)
                /\ Normalised(pn.names[k]) /\ pn.names[k] # <<>>
                /\ Len(Split(pn.names[k], Slash)) = k
                /\ k > 1 => /\ Len(pn.names[k - 1]) < Len(pn.names[k])
                            /\ SubSeq(pn.names[k], 1, Len(pn.names[k - 1])) = pn.names[k - 1]
            /\ (Normalised(pn.path) /\ n > 0) => pn.names[n] = pn.path
            /\ n > 0 => pathNamesOf(pn.names[n]) = pn.names
            /\ pn.path \in {<<>>, <<Slash>>} => pn.names = <<>>

\* pathNames("a//b") has returned a and a/b
C39_Witness ==
    /\ pn.pc = "ret"
    /\ pn.path = <<"a", Slash, Slash, "b">>
    /\ pn.names = <<<<"a">>, <<"a", Slash, "b">>>>

\* ---------------------------------------------------------------------
\* C40: for every pair (n, t) checkFlags accepts for --read-data-subset (two
\* values, both positive, n <= t) the selection of the packs to read (first
\* byte of the pack ID mod t equal to n - 1) never divides by zero and never
\* wraps n - 1 below zero, for any group m of 1..t; every pack of the
\* repository is selected in exactly one of the groups 1..t; and the run of
\* check has read the packs of group n and no other.
GroupsOf(pack, t) ==
    {m \in 1..t : pack \in doReadData(m, t, ck.packs).packs}

C40_SubsetPartitions ==
    (ck.pc \in {"run", "ret"} /\ ck.err = ErrNil /\ ~ck.opts.ReadDataSubset.nil) =>
        LET subset == ck.opts.ReadDataSubset.elems
            n == subset[1]
            t == subset[2]
        IN  /\ Len(subset) = 2
            /\ n >= 1
            /\ t >= 1
            /\ n <= t
            /\ \A m \in 1..t : /\ ~doReadData(m, t, ck.packs).panic
                               /\ ~doReadData(m, t, ck.packs).wrapped
            /\ \A pack \in ck.packs : Cardinality(GroupsOf(pack, t)) = 1
            /\ ck.pc = "ret" =>
                   /\ ck.called
                   /\ ~ck.read.panic
                   /\ ~ck.read.wrapped
                   /\ ck.read.packs = {pack \in ck.packs : pack[1] % t = n - 1}

\* check --read-data-subset=2,3 has read the two packs of the second of three
\* groups of a repository that has packs in all three
C40_Witness ==
    /\ ck.pc = "ret"
    /\ ck.err = ErrNil
    /\ ck.opts.ReadDataSubset = Slice(<<2, 3>>)
    /\ ck.packs = PackIDs
    /\ ck.read.packs = {<<1, 0>>, <<1, 1>>}
    /\ ~ck.read.all

====
